---- MODULE Spec2Model ----
(***************************************************************************)
(* scenv: layered configuration, context files, reference expansion and    *)
(* variable resolution (packages/scenv/src).                               *)
(*                                                                         *)
(* Strings are tuples of one-character strings, so that the reference      *)
(* pattern is matched character by character as the regular expression     *)
(* does.  A JavaScript object is a function whose domain is the set of its *)
(* own keys; `undefined` is the marker UNDEF.                              *)
(***************************************************************************)
EXTENDS Integers, Sequences, FiniteSets, TLC

VARIABLES
  programmaticConfig,     \* config.ts: let programmaticConfig
  programmaticCallbacks,  \* config.ts: let programmaticCallbacks
  fileConfig,             \* layer parsed from scenv.config.json (loadConfigFile)
  envConfig,              \* layer parsed from SCENV_* (configFromEnv)
  processEnv,             \* process.env, for the variables' own env names
  files,                  \* the context files on disk, by <<directory, context name>>
  inMemoryContext,        \* context.ts: let inMemoryContext
  variable,               \* the descriptor made by scenv(name, options)
  calls,                  \* the get()/safeGet()/save() calls the application made
  sched                   \* how the application calls: how often, awaiting or not

vars == <<programmaticConfig, programmaticCallbacks, fileConfig, envConfig,
          processEnv, files, inMemoryContext, variable, calls, sched>>

----------------------------------------------------------------------------
(* Strings *)

UNDEF == <<"#undefined">>
NUM42 == <<"#number">>

IsString(v) == v # UNDEF /\ v # NUM42

EMPTY == << >>

(* Context names *)
CtxA == <<"a">>
CtxB == <<"b">>
CtxZ == <<"z">>
CtxDefault == <<"d","e","f","a","u","l","t">>
ASK == <<"a","s","k">>

(* Storage keys *)
KeyK == <<"k">>
KeyJ == <<"j">>

(* Plain values, one per source so that the source of a result is visible *)
ValSet == <<"s">>
ValEnv == <<"e">>
ValCtx == <<"c">>
ValCtx2 == <<"c","2">>
ValDef == <<"d">>
ValOptDef == <<"o">>
ValPrompt == <<"p">>
ValOther == <<"x">>
ValData == <<"t">>

(* References *)
RefAK == <<"@","a",":","k">>
RefBK == <<"@","b",":","k">>
RefAJ == <<"@","a",":","j">>
RefZK == <<"@","z",":","k">>
RefA == <<"@","a">>
RefZ == <<"@","z">>

----------------------------------------------------------------------------
(* JavaScript objects as functions *)

EmptyObj == [x \in {} |-> UNDEF]

Has(obj, k) == k \in DOMAIN obj

Get(obj, k) == IF k \in DOMAIN obj THEN obj[k] ELSE UNDEF

(* { ...a, ...b } *)
Spread(a, b) ==
  [x \in (DOMAIN a) \cup (DOMAIN b) |-> IF x \in DOMAIN b THEN b[x] ELSE a[x]]

(* obj[k] = v *)
SetKey(obj, k, v) ==
  [x \in (DOMAIN obj) \cup {k} |-> IF x = k THEN v ELSE obj[x]]

(* delete obj[k] *)
DeleteKey(obj, k) == [x \in (DOMAIN obj) \ {k} |-> obj[x]]

(* the entries of an object whose value is a string *)
StringEntries(obj) ==
  [x \in {y \in DOMAIN obj : IsString(obj[y])} |-> obj[x]]

Ok(v) == [ok |-> TRUE, v |-> v]
Throw(e) == [ok |-> FALSE, err |-> e]

(* `const x = e; body`: The({ body : x \in {e} }) is body with x the value *)
(* of e, computed once.                                                    *)
The(S) == CHOOSE x \in S : TRUE

----------------------------------------------------------------------------
(* Directories.  A directory is the tuple of its path segments; << >> is   *)
(* the filesystem root.                                                    *)

DirRoot == << >>
DirP == <<"p">>
DirW == <<"p", "w">>
DirH == <<"p", "w", ".h">>
Dirs == {DirRoot, DirP, DirW, DirH}

(* process.cwd() *)
Cwd == DirW

(* node:path dirname *)
dirname(d) == IF d = << >> THEN << >> ELSE SubSeq(d, 1, Len(d) - 1)

(* the sub-directories of d, in readdir order *)
SubDirs(d) ==
  IF d = DirRoot THEN <<DirP>>
  ELSE IF d = DirP THEN <<DirW>>
  ELSE IF d = DirW THEN <<DirH>>
  ELSE << >>

(* A context file <dir>/<name>.context.json is the pair <<dir, name>>.     *)
Path(dir, name) == <<dir, name>>

(* name.startsWith(".") for the file name <name>.context.json *)
HiddenFile(ctxName) == ctxName = EMPTY \/ ctxName[1] = "."

(* File contents: invalid JSON text, or the text of a JSON object.         *)
Malformed == [kind |-> "malformed"]
JsonText(obj) == [kind |-> "json", data |-> obj]

(* readFileSync + JSON.parse: Ok(object), or a throw (ENOENT, SyntaxError) *)
readJson(path) ==
  IF path \notin DOMAIN files THEN Throw("ENOENT")
  ELSE IF files[path].kind = "malformed" THEN Throw("SyntaxError")
  ELSE Ok(files[path].data)

----------------------------------------------------------------------------
(* config.ts *)

(* findConfigDir: search upward from startDir for scenv.config.json.       *)
(* fileConfig maps each directory that holds a scenv.config.json to the    *)
(* file: whether it is malformed, and the layer its JSON gives.            *)
ConfigFileIn(dir) == dir \in DOMAIN fileConfig

RECURSIVE findConfigDirLoop(_, _)
findConfigDirLoop(dir, root) ==
  IF ConfigFileIn(dir) THEN dir
  ELSE IF dir = root THEN UNDEF
  ELSE findConfigDirLoop(dirname(dir), root)

findConfigDir(startDir) == findConfigDirLoop(startDir, dirname(startDir))

(* loadConfigFile: the layer parsed from the file, {} when it is malformed *)
loadConfigFile(configDir) ==
  IF ~ConfigFileIn(configDir) THEN EmptyObj
  ELSE IF fileConfig[configDir].malformed THEN EmptyObj
  ELSE fileConfig[configDir].layer

(* configFromEnv: the layer parsed from SCENV_* *)
configFromEnv == envConfig

RECURSIVE AppendNew(_, _)
AppendNew(base, add) ==
  IF add = << >> THEN base
  ELSE IF \E i \in 1..Len(base) : base[i] = Head(add)
       THEN AppendNew(base, Tail(add))
       ELSE AppendNew(Append(base, Head(add)), Tail(add))

(* the merge with the programmatic add list appended before the           *)
(* environment's                                                           *)
mergeContexts_ProgAddFirst(fileCfg, envCfg, progCfg) ==
  LET fromFile == IF Has(fileCfg, "context") THEN fileCfg.context
                  ELSE IF Has(fileCfg, "addContext") THEN fileCfg.addContext
                  ELSE << >>
      fromEnvAdd == IF Has(envCfg, "addContext") THEN envCfg.addContext ELSE << >>
      fromProgAdd == IF Has(progCfg, "addContext") THEN progCfg.addContext ELSE << >>
  IN IF Has(progCfg, "context") THEN progCfg.context
     ELSE IF Has(envCfg, "context") THEN envCfg.context
     ELSE AppendNew(fromFile, fromProgAdd \o fromEnvAdd)

mergeContexts(fileCfg, envCfg, progCfg) ==
  LET fromFile == IF Has(fileCfg, "context") THEN fileCfg.context
                  ELSE IF Has(fileCfg, "addContext") THEN fileCfg.addContext
                  ELSE << >>
      fromEnvAdd == IF Has(envCfg, "addContext") THEN envCfg.addContext ELSE << >>
      fromProgAdd == IF Has(progCfg, "addContext") THEN progCfg.addContext ELSE << >>
  IN IF Has(progCfg, "context") THEN progCfg.context
     ELSE IF Has(envCfg, "context") THEN envCfg.context
     ELSE AppendNew(fromFile, fromEnvAdd \o fromProgAdd)

(* loadConfig with the environment layer spread over the programmatic *)
loadConfig_EnvOverProg ==
  LET startDir == IF Has(programmaticConfig, "root") THEN programmaticConfig.root
                  ELSE Cwd
      configDir == findConfigDir(startDir)
      fileCfg == IF configDir # UNDEF THEN loadConfigFile(configDir) ELSE EmptyObj
      envCfg == configFromEnv
      merged == Spread(Spread(fileCfg, programmaticConfig), envCfg)
      withCtx == DeleteKey(
                   SetKey(merged, "context",
                          mergeContexts(fileCfg, envCfg, programmaticConfig)),
                   "addContext")
  IN IF Has(withCtx, "root") THEN withCtx
     ELSE IF configDir # UNDEF THEN SetKey(withCtx, "root", configDir)
     ELSE SetKey(withCtx, "root", startDir)

loadConfig ==
  LET startDir == IF Has(programmaticConfig, "root") THEN programmaticConfig.root
                  ELSE Cwd
      configDir == findConfigDir(startDir)
      fileCfg == IF configDir # UNDEF THEN loadConfigFile(configDir) ELSE EmptyObj
      envCfg == configFromEnv
      merged == Spread(Spread(fileCfg, envCfg), programmaticConfig)
      withCtx == DeleteKey(
                   SetKey(merged, "context",
                          mergeContexts(fileCfg, envCfg, programmaticConfig)),
                   "addContext")
  IN IF Has(withCtx, "root") THEN withCtx
     ELSE IF configDir # UNDEF THEN SetKey(withCtx, "root", configDir)
     ELSE SetKey(withCtx, "root", startDir)

(* getCallbacks: the configured callbacks, a built-in readline callback    *)
(* standing in for each one that is not configured.                        *)
Configured(cb) == Has(programmaticCallbacks, cb)

getCallbacks ==
  [defaultPrompt |-> IF Configured("defaultPrompt") THEN "callbacks.defaultPrompt"
                     ELSE "builtin.defaultPrompt",
   onAskWhetherToSave |-> IF Configured("onAskWhetherToSave")
                          THEN "callbacks.onAskWhetherToSave"
                          ELSE "builtin.defaultAskWhetherToSave",
   onAskContext |-> IF Configured("onAskContext") THEN "callbacks.onAskContext"
                    ELSE "builtin.defaultAskContext"]

----------------------------------------------------------------------------
(* context.ts *)

(* the names of the context files directly in dir that discovery accepts *)
ContextFilesIn(dir) ==
  {p[2] : p \in {q \in DOMAIN files : q[1] = dir /\ ~HiddenFile(q[2])}}

RECURSIVE discoverContextPathsInternal(_, _)
RECURSIVE discoverSubDirs(_, _)
discoverContextPathsInternal(dir, found) ==
  LET here == [n \in (DOMAIN found) \cup ContextFilesIn(dir) |->
                 IF n \in DOMAIN found THEN found[n] ELSE Path(dir, n)]
  IN discoverSubDirs(SubDirs(dir), here)

discoverSubDirs(subdirs, found) ==
  IF subdirs = << >> THEN found
  ELSE discoverSubDirs(Tail(subdirs),
                       discoverContextPathsInternal(Head(subdirs), found))

discoverContextPaths(dir) == discoverContextPathsInternal(dir, EmptyObj)

(* the file getContext(contextName) reads: under cwd, else under the root *)
getContextFilePath(contextName) ==
  The({ IF underCwd # UNDEF THEN underCwd
        ELSE The({ IF projectRoot # Cwd
                   THEN Get(discoverContextPaths(projectRoot), contextName)
                   ELSE UNDEF
                   : projectRoot \in {loadConfig.root} })
        : underCwd \in {Get(discoverContextPaths(Cwd), contextName)} })

(* the string entries of the JSON read from filePath, {} when unreadable *)
readStringEntries(filePath) ==
  The({ IF r.ok THEN StringEntries(r.v) ELSE EmptyObj : r \in {readJson(filePath)} })

getContext(contextName) ==
  The({ IF filePath = UNDEF THEN EmptyObj ELSE readStringEntries(filePath)
        : filePath \in {getContextFilePath(contextName)} })

(* the merge that gives up at the first context without a file *)
RECURSIVE mergeContextList_StopAtMissing(_, _, _)
mergeContextList_StopAtMissing(names, paths, out) ==
  IF names = << >> THEN out
  ELSE IF Get(paths, Head(names)) = UNDEF THEN out
  ELSE mergeContextList_StopAtMissing(
         Tail(names), paths, Spread(out, readStringEntries(paths[Head(names)])))

(* the merge with the earlier context winning over the later *)
RECURSIVE mergeContextList_FirstWins(_, _, _)
mergeContextList_FirstWins(names, paths, out) ==
  IF names = << >> THEN out
  ELSE mergeContextList_FirstWins(
         Tail(names), paths,
         IF Get(paths, Head(names)) = UNDEF THEN out
         ELSE Spread(readStringEntries(paths[Head(names)]), out))

RECURSIVE mergeContextList(_, _, _)
mergeContextList(names, paths, out) ==
  IF names = << >> THEN out
  ELSE mergeContextList(Tail(names), paths,
                        IF Get(paths, Head(names)) = UNDEF THEN out
                        ELSE Spread(out, readStringEntries(paths[Head(names)])))

getMergedContextValues ==
  The({ IF Has(config, "ignoreContext") /\ config.ignoreContext THEN EmptyObj
        ELSE mergeContextList(config.context, discoverContextPaths(Cwd), EmptyObj)
        : config \in {loadConfig} })

(* a context name that is a path: isAbsolute(name) || name.includes(sep) *)
PathLike(contextName) == \E i \in 1..Len(contextName) : contextName[i] = "/"
LiteralDir == <<"#literal">>

getContextWritePath(contextName) ==
  IF PathLike(contextName) THEN Path(LiteralDir, contextName)
  ELSE The({ IF existing # UNDEF THEN existing
             ELSE Path(loadConfig.root, contextName)
             : existing \in {Get(discoverContextPaths(Cwd), contextName)} })

getContextAtPath(filePath) ==
  IF filePath \notin DOMAIN files THEN EmptyObj
  ELSE readStringEntries(filePath)

(* writeToContext that starts from an empty object whatever the file holds *)
writeToContext_FreshObject(contextName, key, value) ==
  The({ [p \in (DOMAIN files) \cup {path} |->
           IF p = path THEN JsonText(SetKey(EmptyObj, key, value)) ELSE files[p]]
        : path \in {getContextWritePath(contextName)} })

(* writeToContext starting from the string entries getContextAtPath gives *)
writeToContext_StringsOnly(contextName, key, value) ==
  The({ [p \in (DOMAIN files) \cup {path} |->
           IF p = path THEN JsonText(SetKey(getContextAtPath(path), key, value))
           ELSE files[p]]
        : path \in {getContextWritePath(contextName)} })

(* writeToContext: the files after the write.  The existing JSON is kept   *)
(* whole (string values and others) and the key is set in it.              *)
writeToContext(contextName, key, value) ==
  The({ The({ [p \in (DOMAIN files) \cup {path} |->
                 IF p = path
                 THEN JsonText(SetKey(IF r.ok THEN r.v ELSE EmptyObj, key, value))
                 ELSE files[p]]
              : r \in {readJson(path)} })
        : path \in {getContextWritePath(contextName)} })

----------------------------------------------------------------------------
(* variable.ts: errors *)

ErrMaxDepth == [kind |-> "max_depth"]
ErrKeyNotDefined(c, k) == [kind |-> "key_not_defined", ctx |-> c, key |-> k]
ErrContextNotFound(c, k) == [kind |-> "context_not_found", ctx |-> c, key |-> k]
ErrMissingValue(name, key) == [kind |-> "missing_value", name |-> name, key |-> key]
ErrPromptRequired(name, key) == [kind |-> "prompt_required", name |-> name, key |-> key]
(* new Error(`Validation failed for "${name}": ${error ?? "unknown"}`) *)
ErrValidationFailed(name, payload) ==
  [kind |-> "validation_failed", name |-> name, text |-> payload]
ErrNoAskWhetherToSave == [kind |-> "onAskWhetherToSave_not_set"]
ErrNoAskContext == [kind |-> "onAskContext_not_set"]
(* whatever a user callback, or the file system, threw *)
ErrThrownBy(who) == [kind |-> "thrown", by |-> who]

IsReferenceError(e) ==
  e.kind \in {"max_depth", "key_not_defined", "context_not_found"}

----------------------------------------------------------------------------
(* variable.ts: reference expansion *)

MAX_CONTEXT_REF_DEPTH == 10

(* CONTEXT_REF_REGEX = /^@([^:]+):(.+)$/ : the index of the colon that     *)
(* ends the context name, or 0 when the string does not match.             *)
RefColon(raw) ==
  IF Len(raw) >= 4 /\ raw[1] = "@"
     /\ \E i \in 3..(Len(raw) - 1) :
          raw[i] = ":" /\ \A j \in 2..(i - 1) : raw[j] # ":"
  THEN CHOOSE i \in 3..(Len(raw) - 1) :
          raw[i] = ":" /\ \A j \in 2..(i - 1) : raw[j] # ":"
  ELSE 0

RefContext(raw) == SubSeq(raw, 2, RefColon(raw) - 1)
RefKey(raw) == SubSeq(raw, RefColon(raw) + 1, Len(raw))

RECURSIVE resolveContextReference(_, _)
resolveContextReference(raw, depth) ==
  IF depth >= MAX_CONTEXT_REF_DEPTH THEN Throw(ErrMaxDepth)
  ELSE IF RefColon(raw) = 0 THEN Ok(raw)
  ELSE The({ The({ IF ~Has(ctx, refKey)
                   THEN IF DOMAIN ctx # {}
                        THEN Throw(ErrKeyNotDefined(contextName, refKey))
                        ELSE Throw(ErrContextNotFound(contextName, refKey))
                   ELSE resolveContextReference(ctx[refKey], depth + 1)
                   : ctx \in {getContext(contextName)} })
             : contextName \in {RefContext(raw)}, refKey \in {RefKey(raw)} })

----------------------------------------------------------------------------
(* variable.ts: scenv(name, options) *)

LowerChar(ch) == IF ch = "K" THEN "k" ELSE IF ch = "J" THEN "j" ELSE ch
UpperChar(ch) == IF ch = "k" THEN "K" ELSE IF ch = "j" THEN "J" ELSE ch
IsAlnumOrUnderscore(ch) == ch \in {"k", "j", "K", "J", "_", "0", "1"}

RECURSIVE StripNonAlnum(_)
StripNonAlnum(str) ==
  IF str = << >> THEN << >>
  ELSE IF IsAlnumOrUnderscore(Head(str))
       THEN <<Head(str)>> \o StripNonAlnum(Tail(str))
       ELSE StripNonAlnum(Tail(str))

(* replace(/\s+/g, "_"): each run of spaces becomes one underscore *)
RECURSIVE ReplaceSpaces(_)
ReplaceSpaces(str) ==
  IF str = << >> THEN << >>
  ELSE IF Head(str) # " " THEN <<Head(str)>> \o ReplaceSpaces(Tail(str))
  ELSE IF Len(str) >= 2 /\ str[2] = " " THEN ReplaceSpaces(Tail(str))
  ELSE <<"_">> \o ReplaceSpaces(Tail(str))

(* name.toLowerCase().replace(/\s+/g, "_").replace(/[^a-z0-9_]/gi, "") *)
defaultKeyFromName(name) ==
  StripNonAlnum(ReplaceSpaces([i \in 1..Len(name) |-> LowerChar(name[i])]))

(* key.toUpperCase().replace(/-/g, "_") *)
defaultEnvFromKey(key) ==
  [i \in 1..Len(key) |-> IF key[i] = "-" THEN "_" ELSE UpperChar(key[i])]

(* The descriptor: options.default is a string or UNDEF; options.validator *)
(* and options.prompt are user functions, present or not.                  *)
scenv(name, options) ==
  LET key == IF Has(options, "key") THEN options.key ELSE defaultKeyFromName(name)
  IN [name |-> name,
      key |-> key,
      envKey |-> IF Has(options, "env") THEN options.env ELSE defaultEnvFromKey(key),
      validator |-> Has(options, "validator"),
      promptFn |-> Has(options, "prompt"),
      defaultValue |-> Get(options, "default")]

----------------------------------------------------------------------------
(* variable.ts: resolution *)

(* process.env[envKey] is set and not "" *)
EnvHit(v) == Get(processEnv, v.envKey) # UNDEF /\ Get(processEnv, v.envKey) # EMPTY

Flag(config, f) == Has(config, f) /\ config[f]

NoRaw == [ok |-> TRUE, raw |-> UNDEF, source |-> "none"]

RawFrom(r, source) ==
  IF r.ok THEN [ok |-> TRUE, raw |-> r.v, source |-> source] ELSE r

(* resolveRaw with the environment consulted before the set overrides *)
RawHit_EnvFirst(v, config) ==
  IF ~Flag(config, "ignoreEnv") /\ EnvHit(v)
  THEN [raw |-> processEnv[v.envKey], source |-> "env"]
  ELSE IF Has(config, "set") /\ Has(config.set, v.key)
  THEN [raw |-> config.set[v.key], source |-> "set"]
  ELSE IF Flag(config, "ignoreContext") THEN [raw |-> UNDEF, source |-> "none"]
  ELSE The({ IF Has(ctx, v.key) THEN [raw |-> ctx[v.key], source |-> "context"]
             ELSE [raw |-> UNDEF, source |-> "none"]
             : ctx \in {getMergedContextValues} })

(* the string resolveRaw picks, with its source: the first of set,        *)
(* environment, merged context that has one                                *)
RawHit(v, config) ==
  IF Has(config, "set") /\ Has(config.set, v.key)
  THEN [raw |-> config.set[v.key], source |-> "set"]
  ELSE IF ~Flag(config, "ignoreEnv") /\ EnvHit(v)
  THEN [raw |-> processEnv[v.envKey], source |-> "env"]
  ELSE IF Flag(config, "ignoreContext") THEN [raw |-> UNDEF, source |-> "none"]
  ELSE The({ IF Has(ctx, v.key) THEN [raw |-> ctx[v.key], source |-> "context"]
             ELSE [raw |-> UNDEF, source |-> "none"]
             : ctx \in {getMergedContextValues} })

resolveRaw(v) ==
  The({ IF hit.raw = UNDEF THEN NoRaw
        ELSE RawFrom(resolveContextReference(hit.raw, 0), hit.source)
        : hit \in {RawHit(v, loadConfig)} })

PromptMode(config) == IF Has(config, "prompt") THEN config.prompt ELSE "fallback"

(* shouldPrompt with no-env deciding on hadValue, as fallback does *)
shouldPrompt_NoEnvAsFallback(config, hadValue, hadEnv) ==
  IF PromptMode(config) = "never" THEN FALSE
  ELSE IF PromptMode(config) = "always" THEN TRUE
  ELSE ~hadValue

shouldPrompt(config, hadValue, hadEnv) ==
  LET mode == PromptMode(config)
  IN IF mode = "never" THEN FALSE
     ELSE IF mode = "always" THEN TRUE
     ELSE IF mode = "fallback" THEN ~hadValue
     ELSE IF mode = "no-env" THEN ~hadEnv
     ELSE FALSE

(* the prompt with an option of an earlier call still in force *)
EffectivePrompt_OptionSticks(optPrompt, v) ==
  IF optPrompt \/ Len(calls) > 1 THEN "options.prompt"
  ELSE IF v.promptFn THEN "variable.prompt"
  ELSE getCallbacks.defaultPrompt

(* overrides?.prompt ?? promptFn ?? callbacks.defaultPrompt *)
EffectivePrompt(optPrompt, v) ==
  IF optPrompt THEN "options.prompt"
  ELSE IF v.promptFn THEN "variable.prompt"
  ELSE getCallbacks.defaultPrompt

(* the default with the per-call options.default ignored *)
ResolvedDefault_VariableOnly(optDefault, v) ==
  IF v.defaultValue = UNDEF THEN Ok(UNDEF)
  ELSE resolveContextReference(v.defaultValue, 0)

(* overrides?.default !== undefined ? overrides.default : defaultValue,    *)
(* then expanded                                                           *)
ResolvedDefault(optDefault, v) ==
  LET effectiveDefault == IF optDefault # UNDEF THEN optDefault ELSE v.defaultValue
  IN IF effectiveDefault = UNDEF THEN Ok(UNDEF)
     ELSE resolveContextReference(effectiveDefault, 0)

(* What the validator returned: true, false, { success: true },            *)
(* { success: true, data }, { success: false }, { success: false, error }, *)
(* or "throws".  validate() gives Ok(data) or Throw(error payload).        *)
ErrPayload == <<"E">>
ErrObject == <<"#object">>
Unknown == <<"u", "n", "k", "n", "o", "w", "n">>

(* `${x}` in a template literal: a string as it is, an object as           *)
(* "[object Object]"                                                       *)
ObjectText == <<"[", "o", "b", "j", "e", "c", "t", " ", "O", "b", "j", "e", "c", "t", "]">>
TemplateText(x) == IF x = ErrObject THEN ObjectText ELSE x

NoValidator == [t |-> "absent"]
ValidatorResults ==
  {[t |-> "boolean", b |-> TRUE], [t |-> "boolean", b |-> FALSE],
   [t |-> "success", data |-> UNDEF], [t |-> "success", data |-> ValData],
   [t |-> "failure", error |-> UNDEF], [t |-> "failure", error |-> ErrPayload],
   [t |-> "failure", error |-> ErrObject],
   [t |-> "throws"]}

normalizeValidatorResult(result) ==
  IF result.t = "boolean"
  THEN IF result.b THEN [t |-> "success", data |-> UNDEF]
       ELSE [t |-> "failure", error |-> UNDEF]
  ELSE result

validate(value, result) ==
  IF result.t = "absent" THEN Ok(value)
  ELSE LET normalized == normalizeValidatorResult(result)
       IN IF normalized.t = "success"
          THEN Ok(IF normalized.data # UNDEF THEN normalized.data ELSE value)
          ELSE Throw(normalized.error)

(* the validator's payload thrown as it is *)
ThrownPayload(payload) == [kind |-> "validator_payload", value |-> payload]

(* get()/save(): the error thrown when validation fails *)
ValidationError(v, validated) ==
  ErrValidationFailed(v.name,
                      IF validated.err # UNDEF THEN TemplateText(validated.err)
                      ELSE Unknown)

(* the policy with always as the fallback *)
SavePromptMode_DefaultAlways(config) ==
  IF Has(config, "shouldSavePrompt") THEN config.shouldSavePrompt ELSE "always"

(* config.shouldSavePrompt ?? (config.prompt === "never" ? "never" : "ask") *)
SavePromptMode(config) ==
  IF Has(config, "shouldSavePrompt") THEN config.shouldSavePrompt
  ELSE IF Has(config, "prompt") /\ config.prompt = "never" THEN "never"
  ELSE "ask"

(* contextNames[0] ?? "default" *)
FirstContextOrDefault(config) ==
  IF Len(config.context) >= 1 THEN config.context[1] ELSE CtxDefault

(* get(): config.saveContextTo ?? contextNames[0] ?? "default" *)
GetSaveTarget(config) ==
  IF Has(config, "saveContextTo") THEN config.saveContextTo
  ELSE FirstContextOrDefault(config)

(* save(): if (!contextName) contextName = config.context?.[0] ?? "default" *)
SaveTargetOrFirst(contextName, config) ==
  IF contextName = UNDEF \/ contextName = EMPTY THEN FirstContextOrDefault(config)
  ELSE contextName

(* safeGet: try { return { success: true, value: await get() } }           *)
(*          catch (err) { return { success: false, error: err } }          *)
Resolved(v) == [state |-> "fulfilled", value |-> v]
Rejected(e) == [state |-> "rejected", error |-> e]
Pending == [state |-> "pending"]

(* safeGet catching nothing but the missing-value error *)
safeGet_CatchMissingOnly(outcome) ==
  IF outcome.ok THEN Resolved([success |-> TRUE, value |-> outcome.v])
  ELSE IF outcome.err.kind = "missing_value"
  THEN Resolved([success |-> FALSE, error |-> outcome.err])
  ELSE Rejected(outcome.err)

safeGet(outcome) ==
  IF outcome.ok THEN Resolved([success |-> TRUE, value |-> outcome.v])
  ELSE Resolved([success |-> FALSE, error |-> outcome.err])

(* get() and save(): the promise settles as the body ended *)
Settle(outcome) ==
  IF outcome.ok THEN Resolved(outcome.v) ELSE Rejected(outcome.err)

----------------------------------------------------------------------------
(* The calls.  A call is cut at its awaits: pc names the promise it waits  *)
(* for.  outcome is how the body of get()/save() ended; result is the      *)
(* promise the application holds.                                          *)

NotYet == [ok |-> FALSE, err |-> [kind |-> "not_yet"]]

NewCall(op, safe, optPrompt, optDefault, valueArg) ==
  [op |-> op, safe |-> safe,
   key |-> variable.key,       \* the key of the variable the call is made on
   inFlight |-> {i \in 1..Len(calls) : calls[i].pc # "done"},
                               \* the calls not yet settled when this one began
   optPrompt |-> optPrompt, optDefault |-> optDefault, valueArg |-> valueArg,
   pc |-> "start",
   config |-> EmptyObj,        \* getResolvedValue: const config = loadConfig()
   rawRes |-> NotYet,          \* what resolveRaw() gave
   promptDefault |-> UNDEF,    \* the suggestion passed to the prompt
   answer |-> UNDEF,           \* what the prompt returned
   resolved |-> NotYet,        \* what getResolvedValue() gave
   validatorResult |-> NoValidator,
   final |-> UNDEF,            \* validated.data
   saveConfig |-> EmptyObj,    \* get()/save(): const config = loadConfig()
   doSave |-> "unset",         \* get(): let doSave
   askedContext |-> UNDEF,     \* what onAskContext returned
   invoked |-> << >>,          \* the callbacks called, in order
   wrote |-> << >>,            \* the writeToContext calls made
   outcome |-> NotYet,
   result |-> Pending,
   filesBefore |-> files]

Finish(c, outcome) ==
  [c EXCEPT !.pc = "done", !.outcome = outcome,
            !.result = IF c.safe THEN safeGet(outcome) ELSE Settle(outcome)]

Same(c) == [call |-> c, files |-> files]

(* writeToContext(ctx, key, String(value)), which the file system may fail *)
DoWrite(c, ctxName, value, returns, ioOk) ==
  IF ioOk
  THEN [call |-> Finish([c EXCEPT !.wrote = Append(@, [ctx |-> ctxName,
                                                        path |-> getContextWritePath(ctxName),
                                                        key |-> c.key,
                                                        value |-> value])],
                        Ok(returns)),
        files |-> writeToContext(ctxName, c.key, value)]
  ELSE Same(Finish(c, Throw(ErrThrownBy("fs"))))

IsFunction(fn) == fn # "undefined"

Invoke(c, fn, pc) == [c EXCEPT !.pc = pc, !.invoked = Append(@, fn)]

(* getResolvedValue up to its first await: loadConfig() and resolveRaw() *)
BeginResolve(c) ==
  [c EXCEPT !.pc = "resolveRaw", !.config = loadConfig,
            !.rawRes = resolveRaw(variable)]

(* getResolvedValue after `await resolveRaw()`, once the default is expanded *)
Decide(c, r, resolvedDefault, doPrompt, fn) ==
  IF ~r.ok THEN [c EXCEPT !.pc = "resolved", !.resolved = Throw(r.err)]
  ELSE IF ~resolvedDefault.ok
  THEN [c EXCEPT !.pc = "resolved", !.resolved = Throw(resolvedDefault.err)]
  ELSE IF doPrompt
  THEN IF ~IsFunction(fn)
       THEN [c EXCEPT !.pc = "resolved",
                      !.resolved = Throw(ErrPromptRequired(variable.name, variable.key))]
       ELSE [c EXCEPT !.pc = "prompt", !.invoked = Append(@, fn),
                      !.promptDefault = IF r.raw # UNDEF THEN r.raw
                                        ELSE resolvedDefault.v]
  ELSE IF r.raw # UNDEF
  THEN [c EXCEPT !.pc = "resolved",
                 !.resolved = [ok |-> TRUE, v |-> r.raw, wasPrompted |-> FALSE,
                               from |-> r.source]]
  ELSE IF resolvedDefault.v # UNDEF
  THEN [c EXCEPT !.pc = "resolved",
                 !.resolved = [ok |-> TRUE, v |-> resolvedDefault.v,
                               wasPrompted |-> FALSE, from |-> "default"]]
  ELSE [c EXCEPT !.pc = "resolved",
                 !.resolved = Throw(ErrMissingValue(variable.name, variable.key))]

(* getResolvedValue after `await resolveRaw()` *)
AfterResolveRaw(c) ==
  IF ~c.rawRes.ok THEN Decide(c, c.rawRes, Ok(UNDEF), FALSE, "undefined")
  ELSE Decide(c, c.rawRes, ResolvedDefault(c.optDefault, variable),
              shouldPrompt(c.config, c.rawRes.raw # UNDEF,
                           ~Flag(c.config, "ignoreEnv") /\ EnvHit(variable)),
              EffectivePrompt(c.optPrompt, variable))

(* getResolvedValue after `await fn(name, defaultForPrompt)` *)
Prompted(c, answer, value) ==
  [c EXCEPT !.pc = "resolved", !.answer = answer,
            !.resolved = IF value.ok
                         THEN [ok |-> TRUE, v |-> value.v, wasPrompted |-> TRUE,
                               from |-> "prompt"]
                         ELSE Throw(value.err)]

AfterPrompt(c, answer) == Prompted(c, answer, resolveContextReference(answer, 0))

(* get(): the destination of the save after a prompt, and the write *)
GetSaveStep(c, config, ioOk) ==
  IF Has(config, "saveContextTo") /\ config.saveContextTo = ASK
  THEN IF ~IsFunction(getCallbacks.onAskContext)
       THEN Same(Finish(c, Throw(ErrNoAskContext)))
       ELSE Same(Invoke(c, getCallbacks.onAskContext, "askContext"))
  ELSE DoWrite(c, GetSaveTarget(config), c.final, c.final, ioOk)

(* get(): a value was prompted and validated; config is loaded again *)
SaveAfterPrompt(c, config, ioOk) ==
  IF SavePromptMode(config) = "never" THEN Same(Finish(c, Ok(c.final)))
  ELSE IF SavePromptMode(config) = "ask"
  THEN IF ~IsFunction(getCallbacks.onAskWhetherToSave)
       THEN Same(Finish(c, Throw(ErrNoAskWhetherToSave)))
       ELSE Same(Invoke(c, getCallbacks.onAskWhetherToSave, "askWhetherToSave"))
  ELSE GetSaveStep([c EXCEPT !.doSave = "yes"], config, ioOk)

(* get() that saves whether or not the value was prompted *)
Validated_SavesUnprompted(c, validated, ioOk) ==
  IF ~validated.ok THEN Same(Finish(c, Throw(ValidationError(variable, validated))))
  ELSE The({ SaveAfterPrompt([c EXCEPT !.final = validated.v, !.saveConfig = config],
                             config, ioOk)
             : config \in {loadConfig} })

(* get() after validate(value) *)
Validated(c, validated, ioOk) ==
  IF ~validated.ok THEN Same(Finish(c, Throw(ValidationError(variable, validated))))
  ELSE IF ~c.resolved.wasPrompted
  THEN Same(Finish([c EXCEPT !.final = validated.v], Ok(validated.v)))
  ELSE The({ SaveAfterPrompt([c EXCEPT !.final = validated.v, !.saveConfig = config],
                             config, ioOk)
             : config \in {loadConfig} })

(* get() after `await getResolvedValue(options)` *)
AfterResolvedGet(c, vres, ioOk) ==
  IF ~c.resolved.ok THEN Same(Finish(c, Throw(c.resolved.err)))
  ELSE IF vres.t = "throws"
  THEN Same(Finish([c EXCEPT !.validatorResult = vres],
                   Throw(ErrThrownBy("validator"))))
  ELSE Validated([c EXCEPT !.validatorResult = vres], validate(c.resolved.v, vres),
                 ioOk)

(* save(): the destination, and the write *)
SaveDestination(c, config, ioOk) ==
  IF Has(config, "saveContextTo") /\ config.saveContextTo = ASK
  THEN IF ~IsFunction(getCallbacks.onAskContext)
       THEN Same(Finish(c, Throw(ErrNoAskContext)))
       ELSE Same(Invoke(c, getCallbacks.onAskContext, "askContext"))
  ELSE DoWrite(c, SaveTargetOrFirst(Get(config, "saveContextTo"), config),
               c.final, UNDEF, ioOk)

(* save() that writes what it was given before looking at the verdict *)
ValidatedSave_WritesUnchecked(c, validated, ioOk) ==
  The({ SaveDestination([c EXCEPT !.final = IF validated.ok THEN validated.v
                                            ELSE ValOther,
                                  !.saveConfig = config],
                        config, ioOk)
        : config \in {loadConfig} })

(* save() after validate(toSave) *)
ValidatedSave(c, validated, ioOk) ==
  IF ~validated.ok THEN Same(Finish(c, Throw(ValidationError(variable, validated))))
  ELSE The({ SaveDestination([c EXCEPT !.final = validated.v, !.saveConfig = config],
                             config, ioOk)
             : config \in {loadConfig} })

(* save() from validate(toSave) on *)
SaveStep(c, toSave, vres, ioOk) ==
  IF vres.t = "throws"
  THEN Same(Finish([c EXCEPT !.validatorResult = vres],
                   Throw(ErrThrownBy("validator"))))
  ELSE ValidatedSave([c EXCEPT !.validatorResult = vres], validate(toSave, vres), ioOk)

----------------------------------------------------------------------------
(* config.ts: configure(partial) *)

configure(partial) ==
  [config |-> Spread(programmaticConfig, DeleteKey(partial, "callbacks")),
   callbacks |-> IF Has(partial, "callbacks")
                 THEN Spread(programmaticCallbacks, partial.callbacks)
                 ELSE programmaticCallbacks]

----------------------------------------------------------------------------
(* Bounds and inputs *)

MaxCalls == 2        \* calls one application run makes
MaxConfigures == 1   \* configure() calls made after start-up

THROWS == <<"#throws">>

(* a run of several calls makes them without per-call options, and its    *)
(* prompt gives a plain value or throws; a run of one call takes every      *)
(* input                                                                    *)
Several == sched.limit > 1

PromptOptions == IF sched.options THEN BOOLEAN ELSE {FALSE}
DefaultOptions == IF sched.options THEN {UNDEF, ValOptDef} ELSE {UNDEF}
SaveValues == {UNDEF, ValOther}

(* what the person at the prompt may type: a plain value, the suggestion,  *)
(* a reference; or the prompt function throws                              *)
PromptAnswers(c) ==
  IF Several THEN {ValPrompt, ValOther, THROWS}
  ELSE {ValPrompt, RefAK, RefA, RefZK, THROWS}
         \cup (IF c.promptDefault # UNDEF THEN {c.promptDefault} ELSE {})

SaveAnswers == {"yes", "no", "throws"}
ContextAnswers == {CtxA, CtxB, EMPTY, THROWS}

ValidatorOutcomes == IF variable.validator THEN ValidatorResults ELSE {NoValidator}

ConfigurePartials ==
  IF sched.nested
  THEN {[x \in {"set"} |-> [y \in {KeyJ} |-> ValOther]],
        [x \in {"callbacks"} |-> [y \in {"onAskContext"} |-> "function"]],
        [x \in {"prompt"} |-> "fallback"]}
  ELSE {[x \in {"prompt"} |-> "never"],
        [x \in {"ignoreContext"} |-> TRUE]}

----------------------------------------------------------------------------
(* Actions *)

AllDone == \A i \in 1..Len(calls) : calls[i].pc = "done"

CanCall == Len(calls) < sched.limit /\ (sched.concurrent \/ AllDone)

Others == <<programmaticConfig, programmaticCallbacks, fileConfig, envConfig,
            processEnv, inMemoryContext, variable, sched>>

Update(i, result) ==
  \E step \in {result} :
    /\ calls' = [calls EXCEPT ![i] = step.call]
    /\ files' = step.files
    /\ UNCHANGED Others

(* variable.get(options) *)
GetCall ==
  /\ CanCall
  /\ \E optPrompt \in PromptOptions, optDefault \in DefaultOptions :
       calls' = Append(calls,
                       BeginResolve(NewCall("get", FALSE, optPrompt, optDefault, UNDEF)))
  /\ UNCHANGED <<files, Others>>

(* variable.safeGet(options) *)
SafeGetCall ==
  /\ CanCall
  /\ \E optPrompt \in PromptOptions, optDefault \in DefaultOptions :
       calls' = Append(calls,
                       BeginResolve(NewCall("get", TRUE, optPrompt, optDefault, UNDEF)))
  /\ UNCHANGED <<files, Others>>

(* variable.save(value) *)
SaveCall ==
  /\ CanCall
  /\ \E value \in SaveValues, vres \in ValidatorOutcomes, ioOk \in BOOLEAN :
       \E step \in {IF value = UNDEF
                    THEN Same(BeginResolve(NewCall("save", FALSE, FALSE, UNDEF, value)))
                    ELSE SaveStep(NewCall("save", FALSE, FALSE, UNDEF, value),
                                  value, vres, ioOk)} :
         /\ calls' = Append(calls, step.call)
         /\ files' = step.files
  /\ UNCHANGED Others

(* other.save(value), on a second variable declared with key j and no     *)
(* validator                                                               *)
OtherSave ==
  /\ CanCall /\ sched.second
  /\ \E value \in SaveValues \ {UNDEF}, ioOk \in BOOLEAN :
       \E step \in {ValidatedSave([NewCall("save", FALSE, FALSE, UNDEF, value)
                                     EXCEPT !.key = KeyJ],
                                   Ok(value), ioOk)} :
         /\ calls' = Append(calls, step.call)
         /\ files' = step.files
  /\ UNCHANGED Others

(* `await resolveRaw()` resumes *)
ResolveRawReturns ==
  \E i \in 1..Len(calls) :
    /\ calls[i].pc = "resolveRaw"
    /\ Update(i, Same(AfterResolveRaw(calls[i])))

(* `await fn(name, defaultForPrompt)` resumes, or fn throws *)
PromptReturns ==
  \E i \in 1..Len(calls) :
    /\ calls[i].pc = "prompt"
    /\ \E answer \in PromptAnswers(calls[i]) :
         Update(i, Same(IF answer = THROWS
                        THEN [calls[i] EXCEPT !.pc = "resolved", !.answer = THROWS,
                                              !.resolved = Throw(ErrThrownBy("prompt"))]
                        ELSE AfterPrompt(calls[i], answer)))

(* get(): `await getResolvedValue(options)` resumes *)
GetContinues ==
  \E i \in 1..Len(calls) :
    /\ calls[i].pc = "resolved" /\ calls[i].op = "get"
    /\ \E vres \in ValidatorOutcomes, ioOk \in BOOLEAN :
         Update(i, AfterResolvedGet(calls[i], vres, ioOk))

(* save(): `await getResolvedValue()` resumes *)
SaveContinues ==
  \E i \in 1..Len(calls) :
    /\ calls[i].pc = "resolved" /\ calls[i].op = "save"
    /\ \E vres \in ValidatorOutcomes, ioOk \in BOOLEAN :
         Update(i, IF ~calls[i].resolved.ok
                   THEN Same(Finish(calls[i], Throw(calls[i].resolved.err)))
                   ELSE SaveStep(calls[i], calls[i].resolved.v, vres, ioOk))

(* get(): `await callbacks.onAskWhetherToSave(name, final)` resumes *)
AskWhetherToSaveReturns ==
  \E i \in 1..Len(calls) :
    /\ calls[i].pc = "askWhetherToSave"
    /\ \E doSave \in SaveAnswers, ioOk \in BOOLEAN :
         Update(i, IF doSave = "throws"
                   THEN Same(Finish(calls[i], Throw(ErrThrownBy("onAskWhetherToSave"))))
                   ELSE IF doSave = "no"
                   THEN Same(Finish([calls[i] EXCEPT !.doSave = "no"],
                                    Ok(calls[i].final)))
                   ELSE GetSaveStep([calls[i] EXCEPT !.doSave = "yes"],
                                    calls[i].saveConfig, ioOk))

(* get()/save(): `await callbacks.onAskContext(name, contextNames)` resumes *)
AskContextReturns ==
  \E i \in 1..Len(calls) :
    /\ calls[i].pc = "askContext"
    /\ \E name \in ContextAnswers, ioOk \in BOOLEAN :
         LET c == calls[i]
         IN Update(i, IF name = THROWS
                      THEN Same(Finish(c, Throw(ErrThrownBy("onAskContext"))))
                      ELSE IF c.op = "get"
                      THEN DoWrite([c EXCEPT !.askedContext = name], name,
                                   c.final, c.final, ioOk)
                      ELSE DoWrite([c EXCEPT !.askedContext = name],
                                   SaveTargetOrFirst(name, c.saveConfig),
                                   c.final, UNDEF, ioOk))

(* configure(partial), between two calls *)
Configure ==
  /\ sched.configures > 0
  /\ AllDone
  /\ \E partial \in ConfigurePartials :
       \E after \in {configure(partial)} :
         /\ programmaticConfig' = after.config
         /\ programmaticCallbacks' = after.callbacks
  /\ sched' = [sched EXCEPT !.configures = @ - 1]
  /\ UNCHANGED <<fileConfig, envConfig, processEnv, files, inMemoryContext,
                 variable, calls>>

----------------------------------------------------------------------------
(* The initial states: the process has started, configure() has been       *)
(* called with what the command line gave, the variable has been declared. *)

NameK == <<"K">>
CtxC == <<"c">>
PathQ == <<"/", "q">>

With(obj, present, k, v) == IF present THEN SetKey(obj, k, v) ELSE obj

Obj1(k, v) == [x \in {k} |-> v]

File1(dir, ctxName, content) == [p \in {Path(dir, ctxName)} |-> content]

NoFiles == [p \in {} |-> Malformed]

NoConfigFile == [d \in {} |-> [malformed |-> FALSE, layer |-> EmptyObj]]

ConfigFile(dir, malformed, layer) ==
  [d \in {dir} |-> [malformed |-> malformed, layer |-> layer]]

Digit(i) == <<<<"1">>, <<"2">>, <<"3">>, <<"4">>, <<"5">>, <<"6">>, <<"7">>,
              <<"8">>, <<"9">>>>[i]

(* a.k = @a:1, a.1 = @a:2, ..., a.<n-1> = a plain value: n lookups from @a:k *)
ChainData(n) ==
  [key \in {KeyK} \cup {Digit(i) : i \in 1..(n - 1)} |->
     IF key = KeyK THEN <<"@", "a", ":">> \o Digit(1)
     ELSE LET i == CHOOSE j \in 1..(n - 1) : Digit(j) = key
          IN IF i = n - 1 THEN ValCtx2 ELSE <<"@", "a", ":">> \o Digit(i + 1)]

ChainLengths == {9, 10}

PlainFiles ==
  {NoFiles, File1(Cwd, CtxA, JsonText(Obj1(KeyK, ValCtx)))}

RefFiles ==
  {File1(Cwd, CtxA, JsonText(Obj1(KeyK, ValCtx))),
   Spread(File1(Cwd, CtxA, JsonText(Obj1(KeyK, RefBK))),
          File1(Cwd, CtxB, JsonText(Obj1(KeyK, ValCtx2)))),
   Spread(File1(Cwd, CtxA, JsonText(Obj1(KeyK, RefBK))),
          File1(Cwd, CtxB, JsonText(Obj1(KeyK, RefAK)))),
   File1(Cwd, CtxA, JsonText(SetKey(Obj1(KeyJ, ValOther), <<"n">>, NUM42))),
   File1(Cwd, CtxA, Malformed),
   Spread(File1(Cwd, CtxA, JsonText(Obj1(KeyK, <<"@", "b">>))),
          File1(Cwd, CtxB, JsonText(Obj1(KeyK, ValCtx2)))),
   File1(DirP, CtxA, JsonText(Obj1(KeyK, ValCtx))),
   File1(Cwd, CtxA, JsonText(Obj1(<<"n">>, NUM42))),
   File1(Cwd, CtxA, JsonText(EmptyObj))}
    \cup {File1(Cwd, CtxA, JsonText(ChainData(n))) : n \in ChainLengths}

ConcurrentFiles ==
  {File1(Cwd, CtxA, JsonText(Obj1(<<"n">>, NUM42)))}

SaveFiles ==
  {NoFiles,
   File1(Cwd, CtxA, JsonText(SetKey(Obj1(KeyJ, ValOther), <<"n">>, NUM42))),
   File1(Cwd, CtxA, JsonText(SetKey(Obj1(KeyK, ValCtx), <<"n">>, NUM42))),
   File1(Cwd, CtxA, Malformed),
   File1(DirH, CtxB, JsonText(Obj1(KeyJ, ValOther))),
   File1(DirP, CtxA, JsonText(Obj1(KeyJ, ValOther)))}

RefValues == {RefAK, RefA, RefZK, RefAJ}

PromptModes == {"absent", "always", "never", "fallback", "no-env"}

StartSched(fileCfg, envCfg, prog, callbacks, env, fs, options, schedule) ==
  /\ programmaticConfig = prog
  /\ programmaticCallbacks = callbacks
  /\ fileConfig = fileCfg
  /\ envConfig = envCfg
  /\ processEnv = env
  /\ files = fs
  /\ inMemoryContext = EmptyObj
  /\ variable = scenv(NameK, options)
  /\ calls = << >>
  /\ sched = schedule

(* the calls are made one after the other, each awaited *)
Awaited(limit, configures) ==
  [limit |-> limit, concurrent |-> FALSE, options |-> limit = 1,
   configures |-> configures, nested |-> FALSE, second |-> FALSE]

StartLayers(fileCfg, envCfg, prog, callbacks, env, fs, options, limit, configures) ==
  StartSched(fileCfg, envCfg, prog, callbacks, env, fs, options,
             Awaited(limit, configures))

Start(prog, callbacks, env, fs, options, limit, configures) ==
  StartLayers(NoConfigFile, EmptyObj, prog, callbacks, env, fs, options, limit,
              configures)

Prog(mode, ignoreEnv, ignoreContext, setValue, context) ==
  With(With(With(With(Obj1("context", context),
                      mode # "absent", "prompt", mode),
                 ignoreEnv, "ignoreEnv", TRUE),
            ignoreContext, "ignoreContext", TRUE),
       setValue # UNDEF, "set", Obj1(KeyK, setValue))

Env(value) == IF value = UNDEF THEN EmptyObj ELSE Obj1(<<"K">>, value)

Options(default, validator, prompt) ==
  With(With(With(EmptyObj, default # UNDEF, "default", default),
            validator, "validator", "function"),
       prompt, "prompt", "function")

(* every combination of the four sources, the two flags and the prompt mode *)
InitPlain ==
  \E mode \in PromptModes, ignoreEnv \in BOOLEAN, ignoreContext \in BOOLEAN,
     setValue \in {UNDEF, ValSet}, envValue \in {UNDEF, EMPTY, ValEnv},
     fs \in PlainFiles, default \in {UNDEF, ValDef} :
    Start(Prog(mode, ignoreEnv, ignoreContext, setValue, <<CtxA>>), EmptyObj,
          Env(envValue), fs, Options(default, FALSE, FALSE), 1, 0)


(* what else the application may have set up: a validator, prompt          *)
(* functions, callbacks, and the save policy and destination               *)
Setup(validator, promptFn, cbPrompt, cbSave, cbContext, savePrompt, saveTo) ==
  [validator |-> validator, promptFn |-> promptFn, cbPrompt |-> cbPrompt,
   cbSave |-> cbSave, cbContext |-> cbContext, savePrompt |-> savePrompt,
   saveTo |-> saveTo]

Setups ==
  {Setup(TRUE, FALSE, FALSE, FALSE, FALSE, "absent", UNDEF),
   Setup(FALSE, TRUE, FALSE, FALSE, FALSE, "absent", UNDEF),
   Setup(FALSE, FALSE, TRUE, FALSE, FALSE, "absent", UNDEF),
   Setup(FALSE, TRUE, TRUE, FALSE, FALSE, "never", UNDEF),
   Setup(FALSE, FALSE, FALSE, FALSE, FALSE, "always", UNDEF),
   Setup(TRUE, FALSE, FALSE, FALSE, FALSE, "always", CtxB),
   Setup(FALSE, FALSE, FALSE, FALSE, TRUE, "always", ASK),
   Setup(FALSE, FALSE, TRUE, TRUE, FALSE, "ask", ASK),
   Setup(FALSE, FALSE, FALSE, FALSE, FALSE, "never", EMPTY)}

SetupProg(prog, s) ==
  With(With(prog, s.savePrompt # "absent", "shouldSavePrompt", s.savePrompt),
       s.saveTo # UNDEF, "saveContextTo", s.saveTo)

SetupCallbacks(s) ==
  With(With(With(EmptyObj, s.cbPrompt, "defaultPrompt", "function"),
            s.cbSave, "onAskWhetherToSave", "function"),
       s.cbContext, "onAskContext", "function")

InitSetup ==
  \E s \in Setups, mode \in {"always", "never", "fallback"},
     envValue \in {UNDEF, ValEnv}, fs \in PlainFiles, default \in {UNDEF, ValDef} :
    Start(SetupProg(Prog(mode, FALSE, FALSE, UNDEF, <<CtxA>>), s), SetupCallbacks(s),
          Env(envValue), fs, Options(default, s.validator, s.promptFn), 1, 0)

(* one source holds a reference; the context files make it resolvable, a   *)
(* chain, a cycle, or broken                                               *)
InitRef ==
  \E ref \in RefValues, source \in {"set", "env", "context", "default"},
     fs \in RefFiles, mode \in {"never", "fallback"} :
    Start(With(Prog(mode, FALSE, FALSE, IF source = "set" THEN ref ELSE UNDEF,
                    IF source = "context" THEN <<CtxC>>
                    ELSE IF source = "default" THEN << >> ELSE <<CtxA>>),
               Path(DirP, CtxA) \in DOMAIN fs, "root", DirP),
          EmptyObj,
          Env(IF source = "env" THEN ref ELSE UNDEF),
          IF source = "context"
          THEN Spread(fs, File1(Cwd, CtxC, JsonText(Obj1(KeyK, ref)))) ELSE fs,
          Options(IF source = "default" THEN ref ELSE UNDEF, FALSE, FALSE), 1, 0)

(* saving: what the destination file held before, and where it is *)
InitSave ==
  \E fs \in SaveFiles, saveTo \in {UNDEF, CtxA, CtxB, PathQ},
     root \in {UNDEF, DirP}, validator \in BOOLEAN :
    Start(With(With(With(Prog("always", FALSE, FALSE, UNDEF, <<CtxA>>),
                         TRUE, "shouldSavePrompt", "always"),
                    saveTo # UNDEF, "saveContextTo", saveTo),
               root # UNDEF, "root", root),
          EmptyObj, EmptyObj, fs, Options(UNDEF, validator, FALSE), 1, 0)

(* two calls one after the other, configure() possibly between them *)
InitTwice ==
  \E mode \in {"fallback", "always"}, savePrompt \in {"never", "always"},
     ignoreContext \in BOOLEAN, saveTo \in {UNDEF, CtxB},
     configures \in 0..MaxConfigures :
    /\ saveTo = CtxB => savePrompt = "always"
    /\ savePrompt = "always" => configures = 0
    /\ ignoreContext => savePrompt = "never" /\ configures = 0
    /\ mode = "always" => savePrompt = "always" /\ saveTo = UNDEF /\ configures = 0
    /\ Start(With(With(Prog(mode, FALSE, ignoreContext, UNDEF, <<CtxA>>),
                       TRUE, "shouldSavePrompt", savePrompt),
                  saveTo # UNDEF, "saveContextTo", saveTo),
             EmptyObj, EmptyObj, NoFiles, Options(UNDEF, FALSE, FALSE),
             MaxCalls, configures)

(* calls with and without options on a variable that has its own prompt   *)
(* and default                                                             *)
InitOptions ==
  \E mode \in {"always", "never"} :
    StartSched(NoConfigFile, EmptyObj,
               With(Prog(mode, FALSE, FALSE, UNDEF, <<CtxA>>),
                    TRUE, "shouldSavePrompt", "never"),
               EmptyObj, EmptyObj, NoFiles, Options(ValDef, FALSE, TRUE),
               [limit |-> MaxCalls, concurrent |-> FALSE, options |-> TRUE,
                configures |-> 0, nested |-> FALSE, second |-> FALSE])

(* configure({set, callbacks, ...}) has been called; configure() is called *)
(* again with a set object, a callbacks object or a prompt mode, then the  *)
(* variable is read                                                        *)
InitConfigure ==
  \E mode \in {"never", "always"}, setValue \in {UNDEF, ValSet},
     cbPrompt \in BOOLEAN, cbSave \in BOOLEAN, fs \in PlainFiles :
    StartSched(NoConfigFile, EmptyObj,
               Prog(mode, FALSE, FALSE, setValue, <<CtxA>>),
               With(With(EmptyObj, cbPrompt, "defaultPrompt", "function"),
                    cbSave, "onAskWhetherToSave", "function"),
               EmptyObj, fs, Options(UNDEF, FALSE, FALSE),
               [limit |-> 1, concurrent |-> FALSE, options |-> FALSE,
                configures |-> MaxConfigures, nested |-> TRUE, second |-> FALSE])

(* calls that are not awaited: several are in flight at the same time; a   *)
(* second variable, with key j, is saved to the same context               *)
InitConcurrent ==
  \E fs \in ConcurrentFiles :
    StartSched(NoConfigFile, EmptyObj,
               With(Prog("fallback", FALSE, FALSE, UNDEF, <<CtxA>>),
                    TRUE, "shouldSavePrompt", "always"),
               EmptyObj, EmptyObj, fs, Options(UNDEF, FALSE, FALSE),
               [limit |-> MaxCalls, concurrent |-> TRUE, options |-> FALSE,
                configures |-> 0, nested |-> FALSE, second |-> TRUE])

(* two context files, each absent, malformed, or holding the key as a     *)
(* string, as a number, or not at all; and the order of the context list   *)
Absent == [kind |-> "absent"]

MergeContents(value) ==
  {Absent, Malformed, JsonText(Obj1(KeyK, value)), JsonText(Obj1(KeyK, NUM42)),
   JsonText(SetKey(Obj1(KeyJ, ValOther), <<"n">>, NUM42))}

MergeFile(ctxName, content) ==
  IF content = Absent THEN NoFiles ELSE File1(Cwd, ctxName, content)

MergeLists == {<<CtxA, CtxB>>, <<CtxB, CtxA>>, <<CtxA, CtxZ, CtxB>>, <<CtxB>>}

InitMerge ==
  \E a \in MergeContents(ValCtx), b \in MergeContents(ValCtx2),
     list \in MergeLists, default \in {UNDEF, ValDef} :
    Start(Prog("never", FALSE, FALSE, UNDEF, list), EmptyObj, EmptyObj,
          Spread(MergeFile(CtxA, a), MergeFile(CtxB, b)),
          Options(default, FALSE, FALSE), 1, 0)

(* the three layers: one scalar field, set or not in each layer, with a    *)
(* different value in each                                                 *)
ScalarFields == {"prompt", "ignoreEnv", "ignoreContext", "set", "shouldSavePrompt",
                 "saveContextTo", "contextDir", "logLevel"}

(* the fields SCENV_* can set (envKeyMap) *)
EnvFields == ScalarFields \ {"set"}

LayerValue(layer, f) ==
  IF f = "prompt"
  THEN (IF layer = "file" THEN "always" ELSE IF layer = "env" THEN "fallback" ELSE "never")
  ELSE IF f \in {"ignoreEnv", "ignoreContext"} THEN layer # "env"
  ELSE IF f = "set"
  THEN Obj1(KeyK, IF layer = "file" THEN ValSet ELSE ValOther)
  ELSE IF f = "shouldSavePrompt"
  THEN (IF layer = "file" THEN "always" ELSE IF layer = "env" THEN "ask" ELSE "never")
  ELSE IF f = "saveContextTo"
  THEN (IF layer = "file" THEN CtxA ELSE IF layer = "env" THEN CtxB ELSE ASK)
  ELSE IF f = "contextDir"
  THEN (IF layer = "file" THEN <<"f">> ELSE IF layer = "env" THEN <<"e">> ELSE <<"g">>)
  ELSE (IF layer = "file" THEN "debug" ELSE IF layer = "env" THEN "info" ELSE "warn")

Layer(name, present, f) == With(EmptyObj, name \in present, f, LayerValue(name, f))

InitScalars ==
  \E f \in ScalarFields, present \in SUBSET {"file", "env", "prog"} :
    /\ "env" \in present => f \in EnvFields
    /\ StartLayers(ConfigFile(Cwd, FALSE, Layer("file", present, f)),
                   Layer("env", present, f), Layer("prog", present, f),
                   EmptyObj, Env(ValEnv), NoFiles, Options(ValDef, FALSE, FALSE), 1, 0)

(* the context lists of the three layers: a replace list and an add list,  *)
(* each present or not                                                     *)
ListOf(layer, kind) ==
  IF layer = "file" THEN (IF kind = "context" THEN <<CtxA, CtxB>> ELSE <<CtxZ>>)
  ELSE IF layer = "env" THEN (IF kind = "context" THEN <<CtxC>> ELSE <<CtxB, CtxC>>)
  ELSE (IF kind = "context" THEN <<CtxB>> ELSE <<CtxC, CtxZ, CtxC>>)

ListLayer(layer, present) ==
  With(With(EmptyObj, <<layer, "context">> \in present, "context",
            ListOf(layer, "context")),
       <<layer, "addContext">> \in present, "addContext", ListOf(layer, "addContext"))

InitLists ==
  \E present \in SUBSET ({"file", "env", "prog"} \X {"context", "addContext"}) :
    StartLayers(ConfigFile(Cwd, FALSE, ListLayer("file", present)),
                ListLayer("env", present),
                With(ListLayer("prog", present), TRUE, "prompt", "never"),
                EmptyObj, EmptyObj, File1(Cwd, CtxC, JsonText(Obj1(KeyK, ValCtx))),
                Options(UNDEF, FALSE, FALSE), 1, 0)

(* where scenv.config.json is: in no directory, in the start directory,    *)
(* its parent or its grandparent, or in two of them; malformed or not      *)
ConfigDirs == {DirW, DirP, DirRoot}

FoundLayer(dir, withRoot) ==
  With(SetKey(Obj1("context", <<CtxZ, CtxA, CtxB>>), "saveContextTo",
              IF dir = DirW THEN CtxA ELSE IF dir = DirP THEN CtxB ELSE CtxC),
       withRoot, "root", DirP)

ConfigFilesAt(dirs, malformed, withRoot) ==
  [d \in dirs |-> [malformed |-> d \in malformed, layer |-> FoundLayer(d, withRoot)]]

InitConfigFile ==
  \E dirs \in SUBSET ConfigDirs, malformed \in SUBSET ConfigDirs, withRoot \in BOOLEAN,
     a \in {Malformed, JsonText(Obj1(KeyK, ValCtx))},
     envAdd \in BOOLEAN, progRoot \in {UNDEF, DirP} :
    /\ malformed \subseteq dirs
    /\ withRoot => dirs # {} /\ progRoot = UNDEF
    /\ StartLayers(ConfigFilesAt(dirs, malformed, withRoot),
                   With(EmptyObj, envAdd, "addContext", <<CtxA, CtxB>>),
                   With(Obj1("prompt", "never"), progRoot # UNDEF, "root", progRoot),
                   EmptyObj, EmptyObj,
                   Spread(File1(Cwd, CtxA, a),
                          File1(Cwd, CtxB, JsonText(Obj1(KeyJ, ValOther)))),
                   Options(ValDef, FALSE, FALSE), 1, 0)

Init ==
  \/ InitPlain \/ InitSetup \/ InitRef \/ InitSave \/ InitTwice \/ InitMerge
  \/ InitScalars \/ InitLists \/ InitConfigFile \/ InitOptions
  \/ InitConfigure \/ InitConcurrent

Next ==
  \/ GetCall
  \/ SafeGetCall
  \/ SaveCall
  \/ OtherSave
  \/ ResolveRawReturns
  \/ PromptReturns
  \/ GetContinues
  \/ SaveContinues
  \/ AskWhetherToSaveReturns
  \/ AskContextReturns
  \/ Configure

Spec == Init /\ [][Next]_vars

----------------------------------------------------------------------------
(* What the claims speak of *)

Done(c) == c.pc = "done"

(* nothing the call reads has changed since it began *)
Undisturbed(c) == files = c.filesBefore /\ loadConfig = c.config

PromptFns == {"options.prompt", "variable.prompt", "callbacks.defaultPrompt",
              "builtin.defaultPrompt"}

PromptsInvoked(c) == {j \in 1..Len(c.invoked) : c.invoked[j] \in PromptFns}

IsPlain(value) == value = UNDEF \/ value = EMPTY \/ value[1] # "@"

(* the four sources as the call sees them *)
OverrideOf(c) ==
  IF Has(c.config, "set") /\ Has(c.config.set, variable.key)
  THEN c.config.set[variable.key] ELSE UNDEF

EnvironmentOf(c) == Get(processEnv, variable.envKey)

MergedContextOf(c) ==
  Get(mergeContextList(c.config.context, discoverContextPaths(Cwd), EmptyObj),
      variable.key)

DefaultOf(c) == IF c.optDefault # UNDEF THEN c.optDefault ELSE variable.defaultValue

EnvironmentCounts(c) ==
  ~Flag(c.config, "ignoreEnv") /\ EnvironmentOf(c) # UNDEF /\ EnvironmentOf(c) # EMPTY

ContextCounts(c) == ~Flag(c.config, "ignoreContext") /\ MergedContextOf(c) # UNDEF

(* the first of override, environment, context that is available *)
FirstRaw(c) ==
  IF OverrideOf(c) # UNDEF THEN OverrideOf(c)
  ELSE IF EnvironmentCounts(c) THEN EnvironmentOf(c)
  ELSE IF ContextCounts(c) THEN MergedContextOf(c)
  ELSE UNDEF

FirstAvailable(c) == IF FirstRaw(c) # UNDEF THEN FirstRaw(c) ELSE DefaultOf(c)

AllPlain(c) ==
  /\ IsPlain(OverrideOf(c)) /\ IsPlain(EnvironmentOf(c))
  /\ IsPlain(MergedContextOf(c)) /\ IsPlain(DefaultOf(c))

(* C1: with prompt mode never, a get() whose sources hold plain strings    *)
(* ends with the value of the first available source in the order          *)
(* override, environment (unless ignoreEnv, and not when empty), merged    *)
(* context (unless ignoreContext), default; with no source at all it ends  *)
(* with the missing-value error.                                           *)
C1_Precedence ==
  \A i \in 1..Len(calls) :
    (/\ calls[i].op = "get" /\ Done(calls[i]) /\ Undisturbed(calls[i])
     /\ PromptMode(calls[i].config) = "never"
     /\ ~variable.validator /\ AllPlain(calls[i]))
    => calls[i].outcome =
         IF FirstAvailable(calls[i]) # UNDEF THEN Ok(FirstAvailable(calls[i]))
         ELSE Throw(ErrMissingValue(variable.name, variable.key))

(* an empty environment value and no override: the context value is used, *)
(* though a default exists                                                 *)
C1_Witness ==
  \E i \in 1..Len(calls) :
    /\ calls[i].op = "get" /\ Done(calls[i]) /\ Undisturbed(calls[i])
    /\ PromptMode(calls[i].config) = "never" /\ AllPlain(calls[i])
    /\ OverrideOf(calls[i]) = UNDEF /\ EnvironmentOf(calls[i]) = EMPTY
    /\ ~Flag(calls[i].config, "ignoreEnv")
    /\ MergedContextOf(calls[i]) = ValCtx /\ DefaultOf(calls[i]) = ValDef
    /\ calls[i].outcome = Ok(ValCtx)

(* the call got past the reference expansion of its raw value and default *)
ReachedDecision(c) ==
  /\ c.pc \notin {"start", "resolveRaw"}
  /\ ~(/\ PromptsInvoked(c) = {} /\ c.resolved # NotYet /\ ~c.resolved.ok
       /\ IsReferenceError(c.resolved.err))

(* C2: a resolution that reaches the prompt decision invokes the prompt    *)
(* function exactly when the mode is always; or fallback (or not set) and  *)
(* override, environment and context gave no raw value; or no-env and the  *)
(* environment variable was not a hit.  Never when the mode is never.      *)
C2_PromptDecision ==
  \A i \in 1..Len(calls) :
    (ReachedDecision(calls[i]) /\ Undisturbed(calls[i]))
    => (PromptsInvoked(calls[i]) # {}
        <=> \/ PromptMode(calls[i].config) = "always"
            \/ /\ PromptMode(calls[i].config) = "fallback"
               /\ FirstRaw(calls[i]) = UNDEF
            \/ /\ PromptMode(calls[i].config) = "no-env"
               /\ ~EnvironmentCounts(calls[i]))

(* no-env, the environment unset, a context value present: the prompt is  *)
(* invoked with the context value as suggestion                            *)
C2_Witness ==
  \E i \in 1..Len(calls) :
    /\ PromptMode(calls[i].config) = "no-env" /\ Undisturbed(calls[i])
    /\ EnvironmentOf(calls[i]) = UNDEF /\ FirstRaw(calls[i]) = ValCtx
    /\ calls[i].pc = "prompt" /\ calls[i].promptDefault = ValCtx
    /\ PromptsInvoked(calls[i]) # {}

(* the prompt functions the call invoked, in order *)
Prompts(c) == [j \in 1..Cardinality(PromptsInvoked(c)) |->
                 c.invoked[CHOOSE n \in PromptsInvoked(c) :
                             Cardinality({m \in PromptsInvoked(c) : m <= n}) = j]]

(* only a default is available, and it is a plain string *)
OnlyDefault(c) ==
  /\ FirstRaw(c) = UNDEF /\ DefaultOf(c) # UNDEF /\ DefaultOf(c) # EMPTY
  /\ IsPlain(DefaultOf(c))

(* C3 as stated: with a default and no override, environment or context    *)
(* value, get() returns the default unchanged, in mode never and in mode   *)
(* fallback.                                                               *)
C3_AsClaimed ==
  \A i \in 1..Len(calls) :
    (/\ calls[i].op = "get" /\ Done(calls[i]) /\ Undisturbed(calls[i])
     /\ PromptMode(calls[i].config) \in {"never", "fallback"}
     /\ ~variable.validator /\ OnlyDefault(calls[i]))
    => calls[i].outcome = Ok(DefaultOf(calls[i]))

(* C3 amended: with a default and no override, environment or context      *)
(* value, get() returns the default unchanged in mode never; in mode       *)
(* fallback it invokes the prompt with the default as the suggestion and,  *)
(* when it succeeds, returns what the prompt gave.                         *)
C3_DefaultOrPrompt ==
  \A i \in 1..Len(calls) :
    (/\ calls[i].op = "get" /\ Undisturbed(calls[i])
     /\ calls[i].pc \notin {"start", "resolveRaw"}
     /\ ~variable.validator /\ OnlyDefault(calls[i]))
    => /\ PromptMode(calls[i].config) = "never"
          => /\ PromptsInvoked(calls[i]) = {}
             /\ Done(calls[i]) => calls[i].outcome = Ok(DefaultOf(calls[i]))
       /\ PromptMode(calls[i].config) = "fallback"
          => /\ PromptsInvoked(calls[i]) # {}
             /\ calls[i].promptDefault = DefaultOf(calls[i])
             /\ (Done(calls[i]) /\ calls[i].outcome.ok)
                => /\ calls[i].resolved.from = "prompt"
                   /\ calls[i].outcome.v = calls[i].resolved.v
                   /\ IsPlain(calls[i].answer) => calls[i].outcome.v = calls[i].answer

(* mode fallback, only a default: the prompt was offered the default and   *)
(* get() returned the other value the prompt gave                          *)
C3_Witness ==
  \E i \in 1..Len(calls) :
    /\ calls[i].op = "get" /\ Done(calls[i]) /\ Undisturbed(calls[i])
    /\ PromptMode(calls[i].config) = "fallback" /\ OnlyDefault(calls[i])
    /\ calls[i].promptDefault = ValDef /\ calls[i].answer = ValPrompt
    /\ calls[i].outcome = Ok(ValPrompt)

(* the resolution decided to prompt *)
DecidedToPrompt(c) ==
  /\ ReachedDecision(c) /\ Undisturbed(c)
  /\ \/ PromptMode(c.config) = "always"
     \/ PromptMode(c.config) = "fallback" /\ FirstRaw(c) = UNDEF
     \/ PromptMode(c.config) = "no-env" /\ ~EnvironmentCounts(c)

(* C4 as stated: when resolution decides to prompt, the one function       *)
(* invoked is options.prompt if given, else the variable's prompt, else    *)
(* the configured callbacks.defaultPrompt; when the caller supplied none   *)
(* of the three, no prompt is invoked and get() fails with the             *)
(* prompt-required configuration error.                                    *)
C4_AsClaimed ==
  \A i \in 1..Len(calls) :
    DecidedToPrompt(calls[i])
    => IF calls[i].optPrompt THEN Prompts(calls[i]) = <<"options.prompt">>
       ELSE IF variable.promptFn THEN Prompts(calls[i]) = <<"variable.prompt">>
       ELSE IF Configured("defaultPrompt")
       THEN Prompts(calls[i]) = <<"callbacks.defaultPrompt">>
       ELSE /\ Prompts(calls[i]) = << >>
            /\ calls[i].resolved
                 = Throw(ErrPromptRequired(variable.name, variable.key))

(* C5 as stated: after a get() that prompted and succeeded, a later get()  *)
(* under the same configuration does not prompt and returns the same value *)
C5_AsClaimed ==
  \A i \in 1..Len(calls) : \A j \in 1..Len(calls) :
    (/\ i < j /\ calls[i].op = "get" /\ calls[j].op = "get"
     /\ Done(calls[i]) /\ calls[i].outcome.ok /\ PromptsInvoked(calls[i]) # {}
     /\ calls[j].config = calls[i].config)
    => /\ PromptsInvoked(calls[j]) = {}
       /\ Done(calls[j]) => calls[j].outcome = calls[i].outcome

(* C6: the promise of a safeGet() is never rejected; when the body of      *)
(* get() ended in an error it is fulfilled with {success: false, error},   *)
(* otherwise with {success: true, value} holding what get() returns.       *)
C6_SafeGetNeverRejects ==
  \A i \in 1..Len(calls) :
    calls[i].safe
    => /\ calls[i].result.state # "rejected"
       /\ Done(calls[i])
          => /\ calls[i].result.state = "fulfilled"
             /\ calls[i].result.value.success = calls[i].outcome.ok
             /\ calls[i].outcome.ok
                => calls[i].result.value.value = calls[i].outcome.v
             /\ ~calls[i].outcome.ok
                => calls[i].result.value.error = calls[i].outcome.err

(* a safeGet() that prompted, was told to save, and met a write error *)
C6_Witness ==
  \E i \in 1..Len(calls) :
    /\ calls[i].safe /\ Done(calls[i])
    /\ calls[i].outcome = Throw(ErrThrownBy("fs"))
    /\ calls[i].result = Resolved([success |-> FALSE, error |-> ErrThrownBy("fs")])

(* References as the specification describes them: @<context>:<key>, and  *)
(* @<context>, which stands for the resolving variable's own key.          *)
IsReference(value) == value # UNDEF /\ Len(value) >= 2 /\ value[1] = "@"

HasColon(value) == \E n \in 1..Len(value) : value[n] = ":"

FirstColon(value) ==
  CHOOSE n \in 1..Len(value) : value[n] = ":" /\ \A m \in 1..(n - 1) : value[m] # ":"

ReferredContext(value) ==
  IF HasColon(value) THEN SubSeq(value, 2, FirstColon(value) - 1)
  ELSE SubSeq(value, 2, Len(value))

ReferredKey(value, ownKey) ==
  IF HasColon(value) THEN SubSeq(value, FirstColon(value) + 1, Len(value))
  ELSE ownKey

(* the expansion the specification describes: follow references, both     *)
(* forms, until a plain string; fail on an unknown context or key and at   *)
(* the depth bound                                                         *)
RECURSIVE Expansion(_, _, _)
Expansion(value, ownKey, depth) ==
  IF depth >= MAX_CONTEXT_REF_DEPTH THEN Throw(ErrMaxDepth)
  ELSE IF ~IsReference(value) THEN Ok(value)
  ELSE LET ctx == getContext(ReferredContext(value))
           key == ReferredKey(value, ownKey)
       IN IF ~Has(ctx, key)
          THEN IF DOMAIN ctx # {}
               THEN Throw(ErrKeyNotDefined(ReferredContext(value), key))
               ELSE Throw(ErrContextNotFound(ReferredContext(value), key))
          ELSE Expansion(ctx[key], ownKey, depth + 1)

(* the value the call chose: what the prompt gave when it prompted, else   *)
(* the first available source                                              *)
Chosen(c) == IF PromptsInvoked(c) # {} THEN c.answer ELSE FirstAvailable(c)

(* C7 as stated: a chosen value @<context>:<key> or @<context> is replaced *)
(* by the string stored in that context under <key>, or under the          *)
(* variable's own key; whichever source it came from.                      *)
C7_AsClaimed ==
  \A i \in 1..Len(calls) :
    (/\ calls[i].op = "get" /\ Done(calls[i]) /\ Undisturbed(calls[i])
     /\ ~variable.validator
     /\ IsReference(Chosen(calls[i]))
     /\ calls[i].outcome # Throw(ErrThrownBy("fs"))
     /\ calls[i].outcome # Throw(ErrThrownBy("onAskWhetherToSave"))
     /\ calls[i].outcome # Throw(ErrThrownBy("onAskContext"))
     /\ Expansion(Chosen(calls[i]), variable.key, 0).ok)
    => calls[i].outcome = Ok(Expansion(Chosen(calls[i]), variable.key, 0).v)

(* C8 as stated: reference expansion ends, with the depth error on a cycle *)
(* or an over-long chain, and a get() that succeeds never returns a string *)
(* that is still a reference.                                              *)
C8_AsClaimed ==
  \A i \in 1..Len(calls) :
    /\ (/\ calls[i].op = "get" /\ Done(calls[i]) /\ Undisturbed(calls[i])
        /\ Expansion(FirstAvailable(calls[i]), variable.key, 0) = Throw(ErrMaxDepth))
       => calls[i].outcome = Throw(ErrMaxDepth)
    /\ (/\ calls[i].op = "get" /\ calls[i].pc \in {"resolved", "done"}
        /\ calls[i].resolved.ok)
       => ~IsReference(calls[i].resolved.v)

(* C9 as stated: when the first-hit source holds a reference that cannot   *)
(* be resolved, get() fails with the reference error, without falling      *)
(* through, prompting, or reporting a missing value; safeGet() gives       *)
(* success: false.                                                         *)
C9_AsClaimed ==
  \A i \in 1..Len(calls) :
    (/\ calls[i].op = "get" /\ Done(calls[i]) /\ Undisturbed(calls[i])
     /\ IsReference(FirstAvailable(calls[i]))
     /\ ~Expansion(FirstAvailable(calls[i]), variable.key, 0).ok)
    => /\ calls[i].outcome
            = Throw(Expansion(FirstAvailable(calls[i]), variable.key, 0).err)
       /\ PromptsInvoked(calls[i]) = {}
       /\ calls[i].safe => calls[i].result.value.success = FALSE

(* the write the step makes, if it makes one *)
Last(seq) == seq[Len(seq)]

WritesIn(i) ==
  IF i <= Len(calls) THEN Len(calls'[i].wrote) > Len(calls[i].wrote)
  ELSE Len(calls'[i].wrote) > 0

DataAt(fs, path) ==
  IF path \in DOMAIN fs /\ fs[path].kind = "json" THEN fs[path].data ELSE EmptyObj

(* C10: when save(v), or the save after a prompt, completes its write, a   *)
(* fresh load of the destination file gives v for the key, and every key   *)
(* the file held before, with a string value or not, is still there with   *)
(* its value.                                                              *)
C10_WriteRoundTrip ==
  [][\A i \in 1..Len(calls') :
       WritesIn(i)
       => \A w \in {Last(calls'[i].wrote)} :
            /\ Get(getContextAtPath(w.path)', w.key) = w.value
            /\ \A k \in DOMAIN DataAt(files, w.path) :
                 k # w.key
                 => /\ k \in DOMAIN DataAt(files', w.path)
                    /\ DataAt(files', w.path)[k] = DataAt(files, w.path)[k]]_vars

(* a save into a file that held another string key and a number: the new  *)
(* key reads back and both old keys are still there                        *)
C10_Witness ==
  \E i \in 1..Len(calls) :
    /\ Done(calls[i]) /\ calls[i].wrote # << >>
    /\ Last(calls[i].wrote).value = ValOther
    /\ DataAt(calls[i].filesBefore, Last(calls[i].wrote).path)
         = SetKey(Obj1(KeyJ, ValOther), <<"n">>, NUM42)
    /\ DataAt(files, Last(calls[i].wrote).path)
         = SetKey(SetKey(Obj1(KeyJ, ValOther), <<"n">>, NUM42), KeyK, ValOther)
    /\ Get(getContextAtPath(Last(calls[i].wrote).path), KeyK) = ValOther

(* the contexts of the list, by position, that hold the key as a string *)
DefinesAsString(ctxName, key) ==
  /\ Path(Cwd, ctxName) \in DOMAIN files
  /\ files[Path(Cwd, ctxName)].kind = "json"
  /\ key \in DOMAIN files[Path(Cwd, ctxName)].data
  /\ IsString(files[Path(Cwd, ctxName)].data[key])

Defining(list, key) == {n \in 1..Len(list) : DefinesAsString(list[n], key)}

LastDefined(list, key) ==
  IF Defining(list, key) = {} THEN UNDEF
  ELSE files[Path(Cwd, list[CHOOSE n \in Defining(list, key) :
                              \A m \in Defining(list, key) : m <= n])].data[key]

ContextFilesUnderCwd == \A p \in DOMAIN files : p[1] = Cwd

MergeKeys == {KeyK, KeyJ, <<"n">>}

(* C11: the merged context map gives, for every key, the string of the    *)
(* last context of the list that holds the key as a string, and nothing    *)
(* for a key no context holds as a string; a get() that falls to the       *)
(* context returns that string.                                            *)
C11_LastContextWins ==
  (ContextFilesUnderCwd /\ ~Flag(loadConfig, "ignoreContext"))
  => /\ \A key \in MergeKeys :
          Get(getMergedContextValues, key) = LastDefined(loadConfig.context, key)
     /\ \A i \in 1..Len(calls) :
          (/\ calls[i].op = "get" /\ Done(calls[i]) /\ Undisturbed(calls[i])
           /\ PromptMode(calls[i].config) = "never" /\ ~variable.validator
           /\ OverrideOf(calls[i]) = UNDEF /\ ~EnvironmentCounts(calls[i])
           /\ IsPlain(LastDefined(calls[i].config.context, variable.key))
           /\ LastDefined(calls[i].config.context, variable.key) # UNDEF)
          => calls[i].outcome
               = Ok(LastDefined(calls[i].config.context, variable.key))

(* the list is b, a; both hold the key as a string; get() gave a's value; *)
(* or the list is a, b, b holds a number under the key, and get() gave     *)
(* a's string                                                              *)
C11_Witness ==
  \E i \in 1..Len(calls) :
    /\ calls[i].op = "get" /\ Done(calls[i]) /\ Undisturbed(calls[i])
    /\ calls[i].config.context = <<CtxB, CtxA>>
    /\ DefinesAsString(CtxA, KeyK) /\ DefinesAsString(CtxB, KeyK)
    /\ files[Path(Cwd, CtxB)].data[KeyK] = ValCtx2
    /\ calls[i].outcome = Ok(ValCtx)

(* the layers a loadConfig() of this state merges *)
StartDir == IF Has(programmaticConfig, "root") THEN programmaticConfig.root ELSE Cwd

FileLayer == loadConfigFile(findConfigDir(StartDir))

Elems(list) == {list[n] : n \in 1..Len(list)}

AddOf(layer) == IF Has(layer, "addContext") THEN layer.addContext ELSE << >>

ForcedReplace == Has(programmaticConfig, "context") \/ Has(envConfig, "context")

BaseList ==
  IF Has(programmaticConfig, "context") THEN programmaticConfig.context
  ELSE IF Has(envConfig, "context") THEN envConfig.context
  ELSE IF Has(FileLayer, "context") THEN FileLayer.context
  ELSE AddOf(FileLayer)

FirstAt(list, name) ==
  CHOOSE n \in 1..Len(list) : list[n] = name /\ \A m \in 1..(n - 1) : list[m] # name

(* tail is adds without the names of base and without repetitions, in the *)
(* order of first occurrence                                               *)
AppendedAsClaimed(tail, base, adds) ==
  /\ Elems(tail) = Elems(adds) \ Elems(base)
  /\ \A n \in 1..Len(tail) : \A m \in 1..Len(tail) :
       n < m => /\ tail[n] # tail[m]
                /\ FirstAt(adds, tail[n]) < FirstAt(adds, tail[m])

(* C12: the effective context list starts with the base: the programmatic *)
(* replace list, else the environment's, else the file's replace list,     *)
(* else the file's add list, else nothing; and when neither environment    *)
(* nor programmatic layer has a replace list, the rest of it is the        *)
(* environment add list then the programmatic add list, without the names  *)
(* already present.                                                        *)
C12_EffectiveContextList ==
  \A i \in 1..Len(calls) :
    Undisturbed(calls[i])
    => /\ Len(calls[i].config.context) >= Len(BaseList)
       /\ SubSeq(calls[i].config.context, 1, Len(BaseList)) = BaseList
       /\ ~ForcedReplace
          => AppendedAsClaimed(
               SubSeq(calls[i].config.context, Len(BaseList) + 1,
                      Len(calls[i].config.context)),
               BaseList, AddOf(envConfig) \o AddOf(programmaticConfig))

(* file replace list a, b; environment adds b, c; programmatic adds        *)
(* c, z, c: the call saw a, b, c, z                                        *)
C12_Witness ==
  \E i \in 1..Len(calls) :
    /\ Done(calls[i]) /\ Undisturbed(calls[i]) /\ ~ForcedReplace
    /\ BaseList = <<CtxA, CtxB>>
    /\ AddOf(envConfig) = <<CtxB, CtxC>>
    /\ AddOf(programmaticConfig) = <<CtxC, CtxZ, CtxC>>
    /\ calls[i].config.context = <<CtxA, CtxB, CtxC, CtxZ>>

(* C13 as stated: with a replace list in the environment layer and only   *)
(* an add list in the programmatic layer, the effective context list is    *)
(* the environment's replace list followed by the programmatic add names   *)
(* not already present.                                                    *)
C13_AsClaimed ==
  \A i \in 1..Len(calls) :
    (/\ Undisturbed(calls[i])
     /\ Has(envConfig, "context") /\ ~Has(programmaticConfig, "context")
     /\ Has(programmaticConfig, "addContext"))
    => /\ Len(calls[i].config.context) >= Len(envConfig.context)
       /\ SubSeq(calls[i].config.context, 1, Len(envConfig.context))
            = envConfig.context
       /\ AppendedAsClaimed(
            SubSeq(calls[i].config.context, Len(envConfig.context) + 1,
                   Len(calls[i].config.context)),
            envConfig.context, AddOf(programmaticConfig))

(* the layer that decides a field: the highest that sets it *)
DecidingLayer(f) ==
  IF Has(programmaticConfig, f) THEN programmaticConfig
  ELSE IF Has(envConfig, f) THEN envConfig
  ELSE FileLayer

(* C14: for every scalar field, the effective configuration a call loads   *)
(* holds the programmatic layer's value if that layer sets the field, else *)
(* the environment layer's, else the file layer's; and it holds no value   *)
(* only when no layer sets the field.                                      *)
C14_ScalarPrecedence ==
  \A i \in 1..Len(calls) :
    Undisturbed(calls[i])
    => \A f \in ScalarFields :
         /\ Has(calls[i].config, f) <=> Has(DecidingLayer(f), f)
         /\ Has(calls[i].config, f) => calls[i].config[f] = DecidingLayer(f)[f]

(* the file and the environment set the save target, the programmatic     *)
(* layer does not: the call saw the environment's                          *)
C14_Witness ==
  \E i \in 1..Len(calls) :
    /\ Done(calls[i]) /\ Undisturbed(calls[i])
    /\ Has(FileLayer, "saveContextTo") /\ FileLayer.saveContextTo = CtxA
    /\ Has(envConfig, "saveContextTo") /\ envConfig.saveContextTo = CtxB
    /\ ~Has(programmaticConfig, "saveContextTo")
    /\ calls[i].config.saveContextTo = CtxB

(* the start directory and its ancestors, at any distance *)
IsPrefix(d, e) == Len(d) <= Len(e) /\ SubSeq(e, 1, Len(d)) = d

AncestorsWithFile(start) == {d \in DOMAIN fileConfig : IsPrefix(d, start)}

Nearest(start) ==
  CHOOSE d \in AncestorsWithFile(start) :
    \A e \in AncestorsWithFile(start) : Len(e) <= Len(d)

NearestLayer(start) ==
  IF AncestorsWithFile(start) = {} \/ fileConfig[Nearest(start)].malformed
  THEN EmptyObj
  ELSE fileConfig[Nearest(start)].layer

NoLayerSetsRoot(start) ==
  /\ ~Has(programmaticConfig, "root") /\ ~Has(envConfig, "root")
  /\ ~Has(NearestLayer(start), "root")

(* C15 as stated: the file layer a call loads is that of the nearest       *)
(* scenv.config.json in the start directory or any ancestor of it, and     *)
(* when no layer sets root the effective root is the directory holding     *)
(* that file; the start directory is the root, and the file layer empty,   *)
(* only when no ancestor holds the file.                                   *)
C15_AsClaimed ==
  \A i \in 1..Len(calls) :
    (/\ Undisturbed(calls[i])
     /\ ~Has(programmaticConfig, "saveContextTo") /\ ~Has(envConfig, "saveContextTo"))
    => /\ Has(calls[i].config, "saveContextTo")
            <=> Has(NearestLayer(StartDir), "saveContextTo")
       /\ Has(calls[i].config, "saveContextTo")
            => calls[i].config.saveContextTo = NearestLayer(StartDir).saveContextTo
       /\ NoLayerSetsRoot(StartDir)
            => calls[i].config.root
                 = IF AncestorsWithFile(StartDir) = {} THEN StartDir
                   ELSE Nearest(StartDir)

(* a context of the list that gives nothing: no file, or a malformed one *)
GivesNothing(ctxName) ==
  \/ Path(Cwd, ctxName) \notin DOMAIN files
  \/ files[Path(Cwd, ctxName)].kind = "malformed"

MalformedConfigFile ==
  ConfigFileIn(StartDir) /\ fileConfig[StartDir].malformed

(* C16: a malformed scenv.config.json gives an empty file layer: the       *)
(* context list and the save target a call loads are those of the          *)
(* environment and programmatic layers alone; and a get() whose context    *)
(* list names a context without a file or with a malformed file does not   *)
(* fail because of it: with prompt mode never, no override and no          *)
(* environment value it returns the last string the other contexts hold    *)
(* for the key, else the default, else fails with the missing-value error. *)
C16_BrokenFilesGiveNothing ==
  \A i \in 1..Len(calls) :
    Undisturbed(calls[i])
    => /\ MalformedConfigFile
          => /\ ~ForcedReplace
                => AppendedAsClaimed(calls[i].config.context, << >>,
                                     AddOf(envConfig) \o AddOf(programmaticConfig))
             /\ Has(calls[i].config, "saveContextTo")
                  <=> (Has(programmaticConfig, "saveContextTo")
                         \/ Has(envConfig, "saveContextTo"))
       /\ (/\ calls[i].op = "get" /\ Done(calls[i]) /\ ContextFilesUnderCwd
           /\ PromptMode(calls[i].config) = "never" /\ ~variable.validator
           /\ ~Flag(calls[i].config, "ignoreContext")
           /\ OverrideOf(calls[i]) = UNDEF /\ ~EnvironmentCounts(calls[i])
           /\ IsPlain(LastDefined(calls[i].config.context, variable.key))
           /\ IsPlain(DefaultOf(calls[i]))
           /\ \E n \in 1..Len(calls[i].config.context) :
                GivesNothing(calls[i].config.context[n]))
          => calls[i].outcome
               = IF LastDefined(calls[i].config.context, variable.key) # UNDEF
                 THEN Ok(LastDefined(calls[i].config.context, variable.key))
                 ELSE IF DefaultOf(calls[i]) # UNDEF THEN Ok(DefaultOf(calls[i]))
                 ELSE Throw(ErrMissingValue(variable.name, variable.key))

(* the list is a, z, b; a is malformed, z has no file, b holds the key:    *)
(* get() gave b's value                                                    *)
C16_Witness ==
  \E i \in 1..Len(calls) :
    /\ calls[i].op = "get" /\ Done(calls[i]) /\ Undisturbed(calls[i])
    /\ calls[i].config.context = <<CtxA, CtxZ, CtxB>>
    /\ Path(Cwd, CtxA) \in DOMAIN files /\ files[Path(Cwd, CtxA)].kind = "malformed"
    /\ Path(Cwd, CtxZ) \notin DOMAIN files
    /\ DefinesAsString(CtxB, KeyK)
    /\ calls[i].outcome = Ok(ValCtx2)

(* a get() or safeGet() whose validator signalled failure with payload E *)
ValidatorFailedWith(c, payload) ==
  /\ c.op = "get" /\ Done(c) /\ c.resolved.ok
  /\ c.validatorResult = [t |-> "failure", error |-> payload]

Payloads == {ErrPayload, ErrObject}

(* C17 as stated: when the validator signals failure with payload E,       *)
(* get() fails and the failure result of safeGet() carries E itself.       *)
C17_AsClaimed ==
  \A i \in 1..Len(calls) : \A payload \in Payloads :
    ValidatorFailedWith(calls[i], payload)
    => /\ ~calls[i].outcome.ok
       /\ calls[i].safe
            => calls[i].result.value
                 = [success |-> FALSE, error |-> ThrownPayload(payload)]

(* the callbacks of the save after a prompt *)
WhetherFns == {"callbacks.onAskWhetherToSave", "builtin.defaultAskWhetherToSave"}

WhichContextFns == {"callbacks.onAskContext", "builtin.defaultAskContext"}

TimesInvoked(c, fns) == Cardinality({j \in 1..Len(c.invoked) : c.invoked[j] \in fns})

(* a get() that prompted, and whose value passed validation *)
PromptedAndValidated(c) ==
  /\ c.op = "get" /\ Done(c)
  /\ c.resolved.ok /\ c.resolved.wasPrompted
  /\ c.validatorResult.t # "throws"
  /\ validate(c.resolved.v, c.validatorResult).ok

(* the save policy in force when the prompt had returned: the configured   *)
(* one, or ask when none is configured                                     *)
PolicyOf(c) ==
  IF Has(c.saveConfig, "shouldSavePrompt") THEN c.saveConfig.shouldSavePrompt
  ELSE "ask"

(* the call wrote the validated value once, under the variable's key, to   *)
(* the destination: the configured target, the name the which-context      *)
(* callback gave, or the first context of the list                         *)
WroteValidated(c) ==
  /\ Len(c.wrote) = 1
  /\ c.wrote[1].key = variable.key
  /\ c.wrote[1].value = c.final
  /\ c.final = validate(c.resolved.v, c.validatorResult).v
  /\ IF Has(c.saveConfig, "saveContextTo") /\ c.saveConfig.saveContextTo = ASK
     THEN /\ TimesInvoked(c, WhichContextFns) = 1
          /\ c.wrote[1].ctx \in ContextAnswers \ {THROWS}
     ELSE c.wrote[1].ctx = GetSaveTarget(c.saveConfig)

C18_AskedAndDeclined ==
  \E i \in 1..Len(calls) :
    /\ PromptedAndValidated(calls[i])
    /\ PolicyOf(calls[i]) = "ask"
    /\ calls[i].doSave = "no"

(* under policy always the value was written; under never, nothing was *)
C18_AlwaysWrote ==
  \E i \in 1..Len(calls) :
    /\ PromptedAndValidated(calls[i])
    /\ PolicyOf(calls[i]) = "always"
    /\ WroteValidated(calls[i])

C18_NeverWrote ==
  \E i \in 1..Len(calls) :
    /\ PromptedAndValidated(calls[i])
    /\ PolicyOf(calls[i]) = "never"

(* the destination both save paths are said to choose *)
ClaimedDestination(c) ==
  IF ~Has(c.saveConfig, "saveContextTo") THEN FirstContextOrDefault(c.saveConfig)
  ELSE IF c.saveConfig.saveContextTo = ASK THEN c.askedContext
  ELSE c.saveConfig.saveContextTo

(* C19 as stated: whatever the configuration and whatever the              *)
(* which-context callback returns, the empty name included, save() and the *)
(* save after a prompt in get() write to the same destination: the         *)
(* configured target when it is a name, the callback's result when the     *)
(* target is ask, else the first name of the context list or "default".    *)
C19_AsClaimed ==
  \A i \in 1..Len(calls) :
    /\ Done(calls[i]) /\ calls[i].wrote # << >>
    /\ Get(calls[i].saveConfig, "saveContextTo") # EMPTY
    => calls[i].wrote[1].ctx = ClaimedDestination(calls[i])

(* the get() calls that completed before call j began *)
GetsBefore(j) == {i \in 1..(j - 1) : calls[i].op = "get" /\ Done(calls[i])}

(* the most recent get() before call j *)
LastGet(j) == CHOOSE i \in GetsBefore(j) : \A k \in GetsBefore(j) : k <= i

(* save() without a value, after a get() that gave a value *)
SavedLastResolved(j) ==
  /\ calls[j].op = "save" /\ calls[j].valueArg = UNDEF /\ Done(calls[j])
  /\ GetsBefore(j) # {}
  /\ calls[LastGet(j)].outcome.ok

(* C20 as stated: save() without a value does not invoke the value prompt  *)
(* again, in any prompt mode, and what it stores is the value the most     *)
(* recent get() produced.                                                  *)
C20_AsClaimed ==
  \A j \in 1..Len(calls) :
    SavedLastResolved(j)
    => /\ PromptsInvoked(calls[j]) = {}
       /\ calls[j].wrote # << >>
            => calls[j].wrote[1].value = calls[LastGet(j)].outcome.v

(* a call that saves: a save() that completed, or a get() that prompted    *)
(* and completed                                                           *)
SavingCall(c) ==
  /\ Done(c) /\ c.outcome.ok
  /\ \/ c.op = "save"
     \/ c.op = "get" /\ c.resolved.ok /\ c.resolved.wasPrompted

(* C21 as stated: after every successful save() and every successful       *)
(* prompted get(), the in-process override layer maps the variable's key   *)
(* to the saved value, whether or not a file was written; and with no save *)
(* target configured no file is written.                                   *)
C21_AsClaimed ==
  (Len(calls) >= 1 /\ SavingCall(calls[Len(calls)]))
  => /\ Get(inMemoryContext, variable.key) = calls[Len(calls)].final
     /\ ~Has(calls[Len(calls)].saveConfig, "saveContextTo")
          => calls[Len(calls)].wrote = << >>

WithOptions(c) == c.optPrompt \/ c.optDefault # UNDEF

(* a get() or safeGet() without options, made after a call with options *)
PlainAfterOptions(i) ==
  /\ calls[i].op = "get" /\ Done(calls[i]) /\ ~WithOptions(calls[i])
  /\ \E j \in 1..(i - 1) : WithOptions(calls[j])

(* C22: the prompt and default given as options to one get() or safeGet()  *)
(* affect only that call: a later call without options invokes no prompt   *)
(* but the variable's own, suggests and falls back to the variable's own   *)
(* default, and the variable descriptor is what scenv() made it.           *)
C22_OptionsOnlyForTheCall ==
  \A i \in 1..Len(calls) :
    PlainAfterOptions(i)
    => LET c == calls[i]
       IN /\ \A n \in 1..Len(c.invoked) :
               c.invoked[n] \in PromptFns
                 => c.invoked[n] = (IF variable.promptFn THEN "variable.prompt"
                                    ELSE getCallbacks.defaultPrompt)
          /\ (c.resolved.ok /\ c.resolved.from = "default")
               => Ok(c.resolved.v) = resolveContextReference(variable.defaultValue, 0)
          /\ (PromptsInvoked(c) # {} /\ c.rawRes.ok /\ c.rawRes.raw = UNDEF)
               => c.promptDefault = variable.defaultValue
          /\ c.promptDefault # ValOptDef

(* the first call was given a prompt and a default and used them; the      *)
(* second, without options, invoked the variable's own prompt              *)
C22_Witness ==
  /\ Len(calls) >= 2
  /\ calls[1].optPrompt /\ calls[1].optDefault = ValOptDef
  /\ Done(calls[1]) /\ calls[1].invoked = <<"options.prompt">>
  /\ calls[1].promptDefault = ValOptDef
  /\ PlainAfterOptions(2)
  /\ calls[2].invoked = <<"variable.prompt">>
  /\ calls[2].promptDefault = ValDef

(* after a call with a default option, a call without options fell back to *)
(* the variable's own default                                              *)
C22_DefaultRestored ==
  /\ Len(calls) >= 2
  /\ calls[1].optDefault = ValOptDef /\ Done(calls[1])
  /\ calls[1].outcome = Ok(ValOptDef)
  /\ PlainAfterOptions(2)
  /\ calls[2].outcome = Ok(ValDef)

(* the step is configure(partial) *)
ConfiguredWith(partial) ==
  /\ sched'.configures < sched.configures
  /\ programmaticConfig' = configure(partial).config
  /\ programmaticCallbacks' = configure(partial).callbacks

(* a top-level key given replaces the earlier value, others are kept *)
TopLevelReplaced(partial) ==
  /\ \A k \in DOMAIN partial \ {"callbacks"} :
       Has(programmaticConfig', k) /\ programmaticConfig'[k] = partial[k]
  /\ \A k \in DOMAIN programmaticConfig \ DOMAIN partial :
       Has(programmaticConfig', k) /\ programmaticConfig'[k] = programmaticConfig[k]
  /\ DOMAIN programmaticConfig' \subseteq DOMAIN programmaticConfig \cup DOMAIN partial

(* C23 as stated: configure(partial) replaces the top-level keys given and *)
(* keeps the others, and a nested object is replaced as a whole: after     *)
(* configure({set: B}) only B's keys are overridden, and after             *)
(* configure({callbacks: B}) only B's callbacks remain configured.         *)
C23_AsClaimed ==
  [][\A partial \in ConfigurePartials :
       ConfiguredWith(partial)
       => /\ TopLevelReplaced(partial)
          /\ Has(partial, "callbacks") => programmaticCallbacks' = partial.callbacks
          /\ ~Has(partial, "callbacks")
               => programmaticCallbacks' = programmaticCallbacks]_vars

(* the directory names of the tree that start with a dot *)
DotNames == {".h"}

(* dir lies beneath a hidden directory under root *)
BeneathHidden(dir, root) ==
  \E n \in (Len(root) + 1)..Len(dir) : dir[n] \in DotNames

(* C24 as stated: no path in the map discoverContextPaths(root) returns is *)
(* a hidden file or lies beneath a hidden directory under root.            *)
C24_AsClaimed ==
  \A root \in {Cwd, DirP} :
    \A name \in DOMAIN discoverContextPaths(root) :
      /\ ~HiddenFile(discoverContextPaths(root)[name][2])
      /\ ~BeneathHidden(discoverContextPaths(root)[name][1], root)

(* two get() calls for the variable, the second made while the first was   *)
(* in flight, with no value in any source when the first began             *)
InFlightTogether(i, j) ==
  /\ i \in calls[j].inFlight
  /\ calls[i].op = "get" /\ calls[j].op = "get"
  /\ calls[i].key = calls[j].key
  /\ Done(calls[i]) /\ Done(calls[j])
  /\ PromptMode(calls[i].config) = "fallback"
  /\ calls[i].rawRes.ok /\ calls[i].rawRes.raw = UNDEF
  /\ variable.defaultValue = UNDEF

(* C25 as stated: of two get() calls for the same key in flight at the     *)
(* same time, in fallback mode with no value in any source, the prompt is  *)
(* invoked at most once in total and both calls return the same value.     *)
C25_AsClaimed ==
  \A j \in 1..Len(calls) : \A i \in 1..(j - 1) :
    InFlightTogether(i, j)
    => /\ Cardinality(PromptsInvoked(calls[i]))
            + Cardinality(PromptsInvoked(calls[j])) <= 1
       /\ calls[i].outcome = calls[j].outcome

(* expansion with the depth bound applied to references only: a plain      *)
(* string is returned at whatever depth it is reached                      *)
RECURSIVE PlainAtAnyDepth(_, _)
PlainAtAnyDepth(value, depth) ==
  IF RefColon(value) = 0 THEN Ok(value)
  ELSE IF depth >= MAX_CONTEXT_REF_DEPTH THEN Throw(ErrMaxDepth)
  ELSE LET ctx == getContext(RefContext(value))
       IN IF ~Has(ctx, RefKey(value))
          THEN IF DOMAIN ctx # {}
               THEN Throw(ErrKeyNotDefined(RefContext(value), RefKey(value)))
               ELSE Throw(ErrContextNotFound(RefContext(value), RefKey(value)))
          ELSE PlainAtAnyDepth(ctx[RefKey(value)], depth + 1)

(* C26 as stated: the depth failure is raised only when a value that is    *)
(* still a reference would have to be expanded beyond the bound; a chain   *)
(* whose 10th lookup yields a plain string resolves to that string.        *)
C26_AsClaimed ==
  \A i \in 1..Len(calls) :
    (/\ calls[i].op = "get" /\ calls[i].pc # "start" /\ Undisturbed(calls[i])
     /\ RawHit(variable, calls[i].config).raw # UNDEF
     /\ RefColon(RawHit(variable, calls[i].config).raw) # 0)
    => calls[i].rawRes
         = RawFrom(PlainAtAnyDepth(RawHit(variable, calls[i].config).raw, 0),
                   RawHit(variable, calls[i].config).source)

(* the reference failures a call met, in resolveRaw or afterwards *)
ReferenceFailures(c) ==
  {r.err : r \in {x \in {c.rawRes, c.resolved} :
                    ~x.ok /\ x.err.kind \in {"context_not_found",
                                             "key_not_defined"}}}

(* C27 as stated: a failed lookup reports 'context not found' if and only  *)
(* if no file for the named context is discoverable; when the file exists  *)
(* but lacks the key as a string it reports 'key not defined in context',  *)
(* naming that context and key.                                            *)
C27_AsClaimed ==
  \A i \in 1..Len(calls) :
    (calls[i].op = "get" /\ Undisturbed(calls[i]))
    => \A e \in ReferenceFailures(calls[i]) :
         (e.kind = "context_not_found") <=> (getContextFilePath(e.ctx) = UNDEF)

(* every write the calls have made *)
AllWrites == UNION {Elems(calls[i].wrote) : i \in 1..Len(calls)}

(* C28: context-file writes within one process are last-writer-wins per    *)
(* key only: under every interleaving of save() and prompted get() calls,  *)
(* in flight together or not, the file of every write holds each written   *)
(* key with a value written to that key, and keeps the keys it held when a *)
(* call began; no write removes another key's update.                      *)
C28_NoLostUpdate ==
  /\ \A w \in AllWrites :
       /\ w.path \in DOMAIN files /\ files[w.path].kind = "json"
       /\ Has(files[w.path].data, w.key)
       /\ files[w.path].data[w.key]
            \in {u.value : u \in {x \in AllWrites : x.path = w.path /\ x.key = w.key}}
  /\ \A i \in 1..Len(calls) : \A q \in DOMAIN calls[i].filesBefore :
       calls[i].filesBefore[q].kind = "json"
       => /\ q \in DOMAIN files /\ files[q].kind = "json"
          /\ DOMAIN calls[i].filesBefore[q].data \subseteq DOMAIN files[q].data

(* a prompted get() of key k and a save() of key j were in flight          *)
(* together, both wrote the same file, and the file holds both values      *)
C28_Witness ==
  \E i \in 1..Len(calls) : \E j \in 1..Len(calls) :
    /\ i \in calls[j].inFlight
    /\ calls[i].op = "get" /\ calls[i].key = KeyK /\ Done(calls[i])
    /\ calls[j].op = "save" /\ calls[j].key = KeyJ /\ Done(calls[j])
    /\ Len(calls[i].wrote) = 1 /\ Len(calls[j].wrote) = 1
    /\ calls[i].wrote[1].path = calls[j].wrote[1].path
    /\ files[calls[i].wrote[1].path].kind = "json"
    /\ Has(files[calls[i].wrote[1].path].data, KeyK)
    /\ Has(files[calls[i].wrote[1].path].data, KeyJ)
    /\ files[calls[i].wrote[1].path].data[KeyK] = calls[i].final
    /\ files[calls[i].wrote[1].path].data[KeyJ] = calls[j].final

(* a get() or safeGet() that settled without invoking the value prompt *)
SettledUnprompted(c) ==
  c.op = "get" /\ Done(c) /\ PromptsInvoked(c) = {}

(* C29: a get() or safeGet() that does not invoke the value prompt writes  *)
(* no context file and calls neither the should-I-save callback nor the    *)
(* which-context callback, whatever the save policy and save target are.   *)
C29_NoPromptNoSave ==
  \A i \in 1..Len(calls) :
    SettledUnprompted(calls[i])
    => /\ calls[i].wrote = << >>
       /\ calls[i].invoked = << >>
       /\ calls[i].doSave = "unset" /\ calls[i].askedContext = UNDEF
       /\ (sched.limit = 1 => files = calls[i].filesBefore)

(* with save policy always and a save target, a get() took its value from  *)
(* a source without prompting, and nothing was written                     *)
C29_Witness ==
  \E i \in 1..Len(calls) :
    /\ SettledUnprompted(calls[i])
    /\ calls[i].outcome.ok
    /\ Has(calls[i].config, "shouldSavePrompt")
    /\ calls[i].config.shouldSavePrompt = "always"
    /\ Has(calls[i].config, "saveContextTo")
    /\ files = calls[i].filesBefore

(* the value the call handed to the validator *)
ValidatedValue(c) ==
  IF c.op = "save" /\ c.valueArg # UNDEF THEN c.valueArg ELSE c.resolved.v

(* the validator was called and rejected the value, or threw *)
ValidatorRejected(c) ==
  /\ Done(c)
  /\ c.validatorResult.t # "absent"
  /\ \/ c.validatorResult.t = "throws"
     \/ ~validate(ValidatedValue(c), c.validatorResult).ok

(* C30: when the validator rejects the value nothing is persisted: the     *)
(* get() or save() fails, writes no context file, calls no save callback,  *)
(* and file and in-process override layer are as they were before.         *)
C30_RejectedNotPersisted ==
  \A i \in 1..Len(calls) :
    ValidatorRejected(calls[i])
    => /\ ~calls[i].outcome.ok
       /\ calls[i].wrote = << >>
       /\ TimesInvoked(calls[i], WhetherFns \cup WhichContextFns) = 0
       /\ (sched.limit = 1 => files = calls[i].filesBefore)
       /\ inMemoryContext = EmptyObj

(* a get() prompted, the validator rejected the answer, and the files are  *)
(* as before although the save policy is always                            *)
C30_Witness ==
  \E i \in 1..Len(calls) :
    /\ ValidatorRejected(calls[i])
    /\ calls[i].op = "get"
    /\ calls[i].resolved.wasPrompted
    /\ calls[i].validatorResult.t = "failure"
    /\ SavePromptMode(loadConfig) = "always"
    /\ ~calls[i].outcome.ok
    /\ files = calls[i].filesBefore

(* a save(v) whose value the validator rejected wrote nothing *)
C30_SaveRejected ==
  \E i \in 1..Len(calls) :
    /\ ValidatorRejected(calls[i])
    /\ calls[i].op = "save" /\ calls[i].valueArg # UNDEF
    /\ files = calls[i].filesBefore

====
